---------------------------- MODULE Spec2Model ----------------------------
(***************************************************************************)
(* A model of the CoRal data curation code:                                *)
(*   - src/scripts/build_coral_asr.py : the corpus build, its copy of the  *)
(*                                      audio and its splitting            *)
(*   - src/coral/data.py              : loading, filtering, normalising    *)
(*   - src/coral/utils.py             : the terminal output settings       *)
(* Every component has its own group of variables and its own              *)
(* specifications, listed after the components; a component that a         *)
(* specification does not exercise stays idle.                             *)
(***************************************************************************)
EXTENDS Integers, Sequences, FiniteSets, TLC

VARIABLES
    \* ---- build_coral_asr.py: split_dataset
    VALIDATION_SET_SPEAKER_IDS, \* module-level list of validation speakers
    TEST_SET_SPEAKER_IDS,       \* module-level list of test speakers
    dataset,                    \* the table handed to split_dataset
    splits,                     \* what split_dataset returned
    splitPc,                    \* "off" | "call" | "done"
    \* ---- data.py: filter_example
    sample,                     \* the record handed to filter_example
    remove_maybe_validated,     \* its arguments ...
    min_seconds_per_example,
    max_seconds_per_example,
    kept,                       \* what it returned (None before the call)
    \* ---- data.py: process_example
    transcript,                 \* the text of the record before any call
    example,                    \* the record handed to process_example
    characters_to_keep,         \* its arguments ...
    lower_case,
    returned,                   \* the texts returned by the calls so far
    normPc,                     \* "off" | "ready"
    \* ---- data.py: load_data_for_finetuning, run by each of two processes
    config,                     \* the configuration object (shared but seed)
    seed,                       \* config.seed of each run
    ftPc,                       \* where each run is
    all_datasets,               \* the prepared sources of each run
    current_index,              \* interleaving: next row of each source
    is_exhausted,               \* interleaving: the sources that ran out
    draws,                      \* interleaving: the draws made so far
    train,                      \* the train stream of each run
    val,                        \* the val split of each run
    rng_perm,                   \* the permutation a seeded generator gives
    rng_draws,                  \* the source indices a seeded generator gives
    \* ---- build_coral_asr.py: main, build_read_aloud_dataset, upload_dataset
    rows,                       \* the metadata rows the selection query gives
    audio_listings,             \* what list_audio_files gives per subdirectory
    read_aloud_dataset,         \* main's variable of that name
    conversation_dataset,       \* main's variable of that name
    uploaded,                   \* the subsets pushed to the hub, in order
    mainPc,                     \* where main is
    \* ---- build_coral_asr.py: copy_audio_directory_to_cwd
    audio_subdirs,              \* the subdirectories of the audio directory
    source_archive,             \* per subdirectory: its .tar.xz next to it
    copied_archive,             \* per subdirectory: the .tar.xz in the copy
    extracted_dir,              \* per subdirectory: its directory in the copy
    compress_done,              \* the subdirectories whose compress job ran
    to_decompress,              \* the archives the glob found
    copyPc,                     \* where copy_audio_directory_to_cwd is
    \* ---- build_coral_asr.py: list_audio_files
    wav_files,                  \* the *.wav files of the directory
    max_attempts,               \* the argument of that name
    attempts,                   \* the listing attempts made so far
    slept,                      \* the seconds slept so far
    listed,                     \* the list returned (None before the return)
    listPc,                     \* "off" | "loop" | "returned" | "OSError"
    \* ---- data.py: process_dataset
    unprocessed,                \* the dataset handed to process_dataset
    proc_clean_text,            \* its arguments ...
    proc_lower_case,
    cast_to_sampling_rate,
    processed,                  \* what it returned (None before the call)
    \* ---- utils.py: block_terminal_output, transformers_output_ignored
    hf_verbosity,               \* transformers logging verbosity
    ds_verbosity,               \* datasets logging verbosity
    progress_bar_enabled,       \* datasets progress bars
    ignored_warnings,           \* categories with an "ignore" warnings filter
    logger_levels,              \* level of the loggers the code sets
    contexts,                   \* transformers_output_ignored contexts entered
                                \* and not yet left
    entry_verbosity,            \* the verbosity each of them was entered at
    left_context,               \* the verbosity the context left last had
                                \* been entered at (None: none left yet)
    blocked_from,               \* datasets state that the last
                                \* block_terminal_output call started from
    \* ---- data.py: filter_dataset
    fd_kind,                    \* class of the dataset argument
    fd_dataset,                 \* its records, by split name
    fd_train_name,              \* train_name (None or a name)
    fd_remove_maybe_validated,  \* remove_maybe_validated (None or a Boolean)
    fd_min_seconds,
    fd_max_seconds,
    num_proc,                   \* mp.cpu_count()
    fd_filtered,                \* the returned dataset (None before return)
    fd_logged,                  \* <<name, count>> of every "Removed" message
    fdPc,                       \* "off" | "call" | "returned" | "AssertionError"
    \* ---- data.py: load_dataset_for_evaluation
    eval_stream,                \* the records of the evaluation split
    eval_clean_text,            \* config.clean_text
    eval_sampling_rate,         \* config.sampling_rate
    eval_dataset,               \* the local variable `dataset`
    eval_returned,              \* the table returned (None: none)
    evalPc                      \* "off" | "loaded" | "filtered" | "processed"
                                \* | "breakpoint" | "returned" | "TypeError"

splitVars == <<VALIDATION_SET_SPEAKER_IDS, TEST_SET_SPEAKER_IDS, dataset,
               splits, splitPc>>

filterVars == <<sample, remove_maybe_validated, min_seconds_per_example,
                max_seconds_per_example, kept>>

normVars == <<transcript, example, characters_to_keep, lower_case, returned,
              normPc>>

ftVars == <<config, seed, ftPc, all_datasets, current_index, is_exhausted,
            draws, train, val, rng_perm, rng_draws>>

buildVars == <<rows, audio_listings, read_aloud_dataset, conversation_dataset,
               uploaded, mainPc>>

copyVars == <<audio_subdirs, source_archive, copied_archive, extracted_dir,
              compress_done, to_decompress, copyPc>>

listVars == <<wav_files, max_attempts, attempts, slept, listed, listPc>>

procVars == <<unprocessed, proc_clean_text, proc_lower_case, cast_to_sampling_rate,
              processed>>

logVars == <<hf_verbosity, ds_verbosity, progress_bar_enabled,
             ignored_warnings, logger_levels, contexts, entry_verbosity,
             left_context, blocked_from>>

fdVars == <<fd_kind, fd_dataset, fd_train_name, fd_remove_maybe_validated,
            fd_min_seconds, fd_max_seconds, num_proc, fd_filtered, fd_logged,
            fdPc>>

evalVars == <<eval_stream, eval_clean_text, eval_sampling_rate, eval_dataset,
              eval_returned, evalPc>>

vars == <<splitVars, filterVars, normVars, ftVars, buildVars, copyVars,
          listVars, procVars, logVars, fdVars, evalVars>>

\* The variables of the other components, which an action leaves alone.
splitRest == <<filterVars, normVars, ftVars, buildVars, copyVars, listVars,
               procVars, logVars, fdVars, evalVars>>
filterRest == <<splitVars, normVars, ftVars, buildVars, copyVars, listVars,
                procVars, logVars, fdVars, evalVars>>
normRest == <<splitVars, filterVars, ftVars, buildVars, copyVars, listVars,
              procVars, logVars, fdVars, evalVars>>
ftRest == <<splitVars, filterVars, normVars, buildVars, copyVars, listVars,
            procVars, logVars, fdVars, evalVars>>
buildRest == <<splitVars, filterVars, normVars, ftVars, copyVars, listVars,
               procVars, logVars, fdVars, evalVars>>
copyRest == <<splitVars, filterVars, normVars, ftVars, buildVars, listVars,
              procVars, logVars, fdVars, evalVars>>
listRest == <<splitVars, filterVars, normVars, ftVars, buildVars, copyVars,
              procVars, logVars, fdVars, evalVars>>
procRest == <<splitVars, filterVars, normVars, ftVars, buildVars, copyVars,
              listVars, logVars, fdVars, evalVars>>
logRest == <<splitVars, filterVars, normVars, ftVars, buildVars, copyVars,
             listVars, procVars, fdVars, evalVars>>
fdRest == <<splitVars, filterVars, normVars, ftVars, buildVars, copyVars,
            listVars, procVars, logVars, evalVars>>
evalRest == <<splitVars, filterVars, normVars, ftVars, buildVars, copyVars,
              listVars, procVars, logVars, fdVars>>

\* An optional value (Python's X | None) is a set with at most one element:
\* None is the empty set and a value x is {x}.
None == {}
Some(x) == {x}
Get(o) == CHOOSE x \in o : TRUE

-----------------------------------------------------------------------------
\* Generic helpers on sequences.

\* The subsequence of s whose elements satisfy Test, in order
\* (datasets.Dataset.filter keeps row order).
RECURSIVE SelectRows(_, _)
SelectRows(s, keep) ==
    IF s = <<>> THEN <<>>
    ELSE IF keep[1] THEN <<Head(s)>> \o SelectRows(Tail(s), Tail(keep))
         ELSE SelectRows(Tail(s), Tail(keep))

Range(s) == {s[i] : i \in DOMAIN s}

\* All sequences over S of length at most n.
SeqsUpTo(S, n) == UNION {[1..k -> S] : k \in 0..n}

-----------------------------------------------------------------------------
\* ---- Validation filter (data.py: filter_example)

MaxSamples == 6
MaxRate == 2
MaxSeconds == 3

ValidationStatuses == {"approved", "maybe", "rejected"}

\* An audio value: the length of its sample array and its sampling rate.
Audios == [array_len : 0..MaxSamples, sampling_rate : 1..MaxRate]

\* A record with an audio column, with or without a "validated" column.
Samples ==
    {[audio |-> a] : a \in Audios}
    \cup {[audio |-> a, validated |-> v] : a \in Audios, v \in ValidationStatuses}

\* The variant of filter_example with non-strict duration bounds (a record
\* whose duration equals a bound is kept).
filter_example_inclusive(smp, remove_maybe, min_seconds, max_seconds) ==
    LET audio == smp.audio IN
    IF audio.array_len < audio.sampling_rate * min_seconds THEN FALSE
    ELSE IF audio.array_len > audio.sampling_rate * max_seconds THEN FALSE
    ELSE IF "validated" \in DOMAIN smp
         THEN IF remove_maybe /\ smp.validated \in {"rejected", "maybe"}
              THEN FALSE
              ELSE IF smp.validated = "rejected" THEN FALSE ELSE TRUE
         ELSE TRUE

\* The variant of filter_example that ignores remove_maybe_validated and
\* always applies the strict policy.
filter_example_always_strict(smp, remove_maybe, min_seconds, max_seconds) ==
    LET audio == smp.audio IN
    IF audio.array_len <= audio.sampling_rate * min_seconds THEN FALSE
    ELSE IF audio.array_len >= audio.sampling_rate * max_seconds THEN FALSE
    ELSE IF "validated" \in DOMAIN smp
         THEN IF smp.validated \in {"rejected", "maybe"} THEN FALSE ELSE TRUE
         ELSE TRUE

filter_example(smp, remove_maybe, min_seconds, max_seconds) ==
    LET audio == smp.audio IN
    IF audio.array_len <= audio.sampling_rate * min_seconds THEN FALSE
    ELSE IF audio.array_len >= audio.sampling_rate * max_seconds THEN FALSE
    ELSE IF "validated" \in DOMAIN smp
         THEN IF remove_maybe /\ smp.validated \in {"rejected", "maybe"}
              THEN FALSE
              ELSE IF smp.validated = "rejected" THEN FALSE ELSE TRUE
         ELSE TRUE

IdleFilter ==
    /\ sample = [audio |-> [array_len |-> 0, sampling_rate |-> 1]]
    /\ remove_maybe_validated = FALSE
    /\ min_seconds_per_example = 0
    /\ max_seconds_per_example = 0
    /\ kept = None

StartFilter ==
    /\ sample \in Samples
    /\ remove_maybe_validated \in BOOLEAN
    /\ min_seconds_per_example \in 0..MaxSeconds
    /\ max_seconds_per_example \in 0..MaxSeconds
    /\ kept = None

FilterExample ==
    /\ kept = None
    /\ kept' = Some(filter_example(sample, remove_maybe_validated,
                                   min_seconds_per_example,
                                   max_seconds_per_example))
    /\ UNCHANGED <<sample, remove_maybe_validated, min_seconds_per_example,
                   max_seconds_per_example>>
    /\ UNCHANGED filterRest

-----------------------------------------------------------------------------
\* ---- Text normaliser (data.py: process_dataset, process_example)
\*
\* A text is a sequence of characters; a character is a short string: an
\* ASCII character stands for itself, any other character has a name
\* ("a_ring" is U+00E5, "mu" is U+03BC, "micro" is U+00B5, "section" is
\* U+00A7, "fw_minus" is U+FF0D, "comb_acute" is U+0301, "zwsp" is U+200B).

MaxTextLen == 3

\* The characters the checked transcripts are built from.
Alphabet ==
    {"a", "A", "g", "a_tilde", "mu", "-", "comb_acute", "zwsp", " "}

\* Transcripts of the documented examples, checked beside the bounded ones.
ExampleTexts ==
    {<<"a", "a", "e">>, <<"mu", "g">>, <<"micro", "g">>, <<"fw_minus">>,
     <<"a", "b", "!", "c", " ", " ", "d">>,
     <<"e_grave", "a", "a", "%", "-", "section", "comb_acute", "zwsp", "a">>}

KeepOptions ==
    {None, Some(<<"a", "b", "c", " ">>), Some(<<"A", "g">>)}

\* The table of process_dataset, in its declaration order.
conversion_dict ==
    <<<<<<"a", "a">>, <<"a_ring">>>>,
      <<<<"g_breve">>, <<"g">>>>,
      <<<<"n_tilde">>, <<"n">>>>,
      <<<<"n_acute">>, <<"n">>>>,
      <<<<"e_grave">>, <<"e">>>>,
      <<<<"k", "g">>, <<" ", "k", "i", "l", "o", " ">>>>,
      <<<<"mu", "g">>, <<" ", "m", "i", "k", "r", "o", "g", "r", "a", "m", " ">>>>,
      <<<<"-">>, <<" ", "m", "i", "n", "u", "s", " ">>>>,
      <<<<"+">>, <<" ", "p", "l", "u", "s", " ">>>>,
      <<<<"mu">>, <<" ", "m", "i", "k", "r", "o", " ">>>>,
      <<<<"section">>, <<" ", "p", "a", "r", "a", "g", "r", "a", "f", " ">>>>,
      <<<<"%">>, <<" ", "p", "r", "o", "c", "e", "n", "t", " ">>>>,
      <<<<"permille">>, <<" ", "p", "r", "o", "m", "i", "l", "l", "e", " ">>>>,
      <<<<"u_acute">>, <<"u">>>>,
      <<<<"s_cedilla">>, <<"s">>>>,
      <<<<"e_circ">>, <<"e">>>>,
      <<<<"a_tilde">>, <<"a">>>>,
      <<<<"e_diaer">>, <<"e">>>>,
      <<<<"c_acute">>, <<"c">>>>,
      <<<<"a_diaer">>, <<"ae">>>>,
      <<<<"i_acute">>, <<"i">>>>,
      <<<<"s_caron">>, <<"s">>>>,
      <<<<"i_circ">>, <<"i">>>>,
      <<<<"e_caron">>, <<"e">>>>,
      <<<<"eth">>, <<"d">>>>,
      <<<<"a_acute">>, <<"a">>>>,
      <<<<"o_acute">>, <<"o">>>>,
      <<<<"thorn">>, <<"t", "h">>>>,
      <<<<"i_dotless">>, <<"i">>>>,
      <<<<"o_diaer">>, <<"o_slash">>>>,
      <<<<"c_cedilla">>, <<"c">>>>,
      <<<<"s_comma">>, <<"s">>>>,
      <<<<"comb_acute">>, <<" ">>>>,
      <<<<"zwsp">>, <<" ">>>>>>

\* str.lower and str.upper, character by character.
LowerOf ==
    [c \in {"A", "A_tilde", "A_acute", "A_ring", "E_acute"} |->
        CASE c = "A" -> "a"
          [] c = "A_tilde" -> "a_tilde"
          [] c = "A_acute" -> "a_acute"
          [] c = "A_ring" -> "a_ring"
          [] c = "E_acute" -> "e_acute"]

UpperOf ==
    [c \in {"a", "b", "c", "e", "g", "a_tilde", "a_acute", "a_ring",
            "e_acute"} |->
        CASE c = "a" -> "A"
          [] c = "b" -> "B"
          [] c = "c" -> "C"
          [] c = "e" -> "E"
          [] c = "g" -> "G"
          [] c = "a_tilde" -> "A_tilde"
          [] c = "a_acute" -> "A_acute"
          [] c = "a_ring" -> "A_ring"
          [] c = "e_acute" -> "E_acute"]

LowerChar(c) == IF c \in DOMAIN LowerOf THEN LowerOf[c] ELSE c
UpperChar(c) == IF c \in DOMAIN UpperOf THEN UpperOf[c] ELSE c

Lower(s) == [i \in DOMAIN s |-> LowerChar(s[i])]
Upper(s) == [i \in DOMAIN s |-> UpperChar(s[i])]

\* unicodedata.normalize("NFKC", doc): compatibility characters are mapped to
\* their plain form, and a combining acute accent is composed with the
\* character before it when Unicode has the composed character.
CompatOf ==
    [c \in {"micro", "fw_minus"} |->
        IF c = "micro" THEN "mu" ELSE "-"]

AcuteOf ==
    [c \in {"a", "A", "e", "E", "g", "c", "k"} |->
        CASE c = "a" -> "a_acute"
          [] c = "A" -> "A_acute"
          [] c = "e" -> "e_acute"
          [] c = "E" -> "E_acute"
          [] c = "g" -> "g_acute"
          [] c = "c" -> "c_acute"
          [] c = "k" -> "k_acute"]

RECURSIVE Compose(_, _)
Compose(done, rest) ==
    IF rest = <<>> THEN done
    ELSE LET c == Head(rest) IN
         IF /\ c = "comb_acute"
            /\ done # <<>>
            /\ done[Len(done)] \in DOMAIN AcuteOf
         THEN Compose(SubSeq(done, 1, Len(done) - 1)
                          \o <<AcuteOf[done[Len(done)]]>>, Tail(rest))
         ELSE Compose(Append(done, c), Tail(rest))

NFKC(s) ==
    Compose(<<>>, [i \in DOMAIN s |->
                      IF s[i] \in DOMAIN CompatOf THEN CompatOf[s[i]] ELSE s[i]])

\* str.replace(key, value): every occurrence, left to right, not overlapping.
RECURSIVE Replace(_, _, _)
Replace(s, key, value) ==
    IF Len(s) < Len(key) THEN s
    ELSE IF SubSeq(s, 1, Len(key)) = key
         THEN value \o Replace(SubSeq(s, Len(key) + 1, Len(s)), key, value)
         ELSE <<Head(s)>> \o Replace(Tail(s), key, value)

\* The variant of the conversion loop that walks the table backwards.
RECURSIVE Convert_reversed(_, _, _)
Convert_reversed(doc, table, i) ==
    IF i > Len(table) THEN doc
    ELSE LET j == Len(table) - i + 1
         IN CHOOSE r \in {Convert_reversed(d, table, i + 1) :
                d \in {Replace(doc, table[j][1], table[j][2])}} : TRUE

\* for key, value in conversion_dict.items(): doc = doc.replace(key, value)
\* (d is the text after pair i; binding it in a set has it computed once,
\* before the remaining pairs are applied to it).
RECURSIVE Convert(_, _, _)
Convert(doc, table, i) ==
    IF i > Len(table) THEN doc
    ELSE CHOOSE r \in {Convert(d, table, i + 1) :
             d \in {Replace(doc, table[i][1], table[i][2])}} : TRUE

\* str.strip(): whitespace off both ends.
Whitespace == {" ", "\n", "\t"}

RECURSIVE LStrip(_, _)
LStrip(s, chars) ==
    IF s # <<>> /\ Head(s) \in chars THEN LStrip(Tail(s), chars) ELSE s

RECURSIVE RStrip(_, _)
RStrip(s, chars) ==
    IF s # <<>> /\ s[Len(s)] \in chars
    THEN RStrip(SubSeq(s, 1, Len(s) - 1), chars) ELSE s

Strip(s, chars) == RStrip(LStrip(s, chars), chars)

\* The variant of the allow-list pattern without its negation: it blanks the
\* characters to keep instead of the others.
ReplaceNonStandard_not_negated(doc, keep) ==
    [i \in DOMAIN doc |->
        IF doc[i] \in Range(keep) \cup {" ", "|"} THEN " " ELSE doc[i]]

\* re.sub("[^<keep> |]", " ", doc)
ReplaceNonStandard(doc, keep) ==
    [i \in DOMAIN doc |->
        IF doc[i] \in Range(keep) \cup {" ", "|"} THEN doc[i] ELSE " "]

\* re.sub(r" +", " ", doc)
RECURSIVE CollapseSpaces(_)
CollapseSpaces(s) ==
    IF s = <<>> THEN <<>>
    ELSE IF Head(s) = " "
         THEN <<" ">> \o CollapseSpaces(LStrip(s, {" "}))
         ELSE <<Head(s)>> \o CollapseSpaces(Tail(s))

\* The variant of the line stripping that strips the text as one line.
StripLines_whole_text(line, rest) == Strip(line \o rest, Whitespace)

\* "\n".join([line.strip() for line in doc.split("\n")])
RECURSIVE StripLines(_, _)
StripLines(line, rest) ==
    IF rest = <<>> THEN Strip(line, Whitespace)
    ELSE IF Head(rest) = "\n"
         THEN Strip(line, Whitespace) \o <<"\n">> \o StripLines(<<>>, Tail(rest))
         ELSE StripLines(Append(line, Head(rest)), Tail(rest))

\* The text process_example computes for doc.
CleanText(doc, keep, table, lower) ==
    LET d1 == IF lower THEN Lower(doc) ELSE doc
        d2 == NFKC(d1)
        d3 == Convert(d2, table, 1)
        d4 == IF keep # None
              THEN LET k == IF lower THEN Lower(Get(keep))
                            ELSE Upper(Get(keep)) \o Lower(Get(keep))
                   IN ReplaceNonStandard(Strip(d3, Whitespace), k)
              ELSE d3
        d5 == CollapseSpaces(d4)
    IN Strip(StripLines(<<>>, d5), {"\n"})

\* process_example: the record with its text column replaced.
process_example(ex, keep, table, lower) ==
    [ex EXCEPT !.text = CleanText(ex.text, keep, table, lower)]

IdleNormalize ==
    /\ transcript = <<>>
    /\ example = [text |-> <<>>]
    /\ characters_to_keep = None
    /\ lower_case = FALSE
    /\ returned = <<>>
    /\ normPc = "off"

StartNormalize ==
    /\ transcript \in SeqsUpTo(Alphabet, MaxTextLen) \cup ExampleTexts
    /\ example = [text |-> transcript]
    /\ characters_to_keep \in KeepOptions
    /\ lower_case \in BOOLEAN
    /\ returned = <<>>
    /\ normPc = "ready"

\* The longest text with line breaks.
MaxLayoutLen == 4

\* The characters the texts with line breaks are built from.
LayoutAlphabet == {"a", " ", "\n", "\t"}

\* Texts of letters, spaces, tabs and line breaks, every option setting.
StartLayout ==
    /\ transcript \in SeqsUpTo(LayoutAlphabet, MaxLayoutLen)
    /\ example = [text |-> transcript]
    /\ characters_to_keep \in KeepOptions
    /\ lower_case \in BOOLEAN
    /\ returned = <<>>
    /\ normPc = "ready"

\* One call of process_example on the record; the second call is made on the
\* record the first one returned.
ProcessExample ==
    /\ normPc = "ready"
    /\ Len(returned) < 2
    /\ example' = process_example(example, characters_to_keep,
                                  conversion_dict, lower_case)
    /\ returned' = Append(returned, example'.text)
    /\ UNCHANGED <<transcript, characters_to_keep, lower_case, normPc>>
    /\ UNCHANGED normRest

-----------------------------------------------------------------------------
\* ---- Splitting (build_coral_asr.py)

NumSpeakers == 3
MaxRows == 3

Speakers == 1..NumSpeakers

\* A table whose rows carry a recording id (the row number) and a speaker.
Tables ==
    {[i \in 1..Len(sp) |-> [id_recording |-> i, id_speaker |-> sp[i]]] :
        sp \in SeqsUpTo(Speakers, MaxRows)}

\* The buggy variant of examples_belong_to_train that forgets the test list.
examples_belong_to_train_val_only(examples) ==
    [i \in DOMAIN examples |->
        examples[i].id_speaker \notin VALIDATION_SET_SPEAKER_IDS]

examples_belong_to_train(examples) ==
    [i \in DOMAIN examples |->
        examples[i].id_speaker \notin
            (VALIDATION_SET_SPEAKER_IDS \cup TEST_SET_SPEAKER_IDS)]

examples_belong_to_val(examples) ==
    [i \in DOMAIN examples |->
        examples[i].id_speaker \in VALIDATION_SET_SPEAKER_IDS]

examples_belong_to_test(examples) ==
    [i \in DOMAIN examples |->
        examples[i].id_speaker \in TEST_SET_SPEAKER_IDS]

\* The variant of split_dataset that puts val and test in the mapping even
\* when they are empty.
split_dataset_empty_splits_kept(ds) ==
    IF Len(ds) = 0 THEN None
    ELSE Some([k \in {"train", "val", "test"} |->
                 IF k = "train"
                 THEN SelectRows(ds, examples_belong_to_train(ds))
                 ELSE IF k = "val"
                      THEN SelectRows(ds, examples_belong_to_val(ds))
                      ELSE SelectRows(ds, examples_belong_to_test(ds))])

\* split_dataset: None for an empty table, else a mapping that always has
\* train and has val / test only when they are not empty.
split_dataset(ds) ==
    IF Len(ds) = 0 THEN None
    ELSE LET train_dataset == SelectRows(ds, examples_belong_to_train(ds))
             val_dataset == SelectRows(ds, examples_belong_to_val(ds))
             test_dataset == SelectRows(ds, examples_belong_to_test(ds))
             s0 == [k \in {"train"} |-> train_dataset]
             s1 == IF Len(val_dataset) > 0
                   THEN s0 @@ [k \in {"val"} |-> val_dataset] ELSE s0
             s2 == IF Len(test_dataset) > 0
                   THEN s1 @@ [k \in {"test"} |-> test_dataset] ELSE s1
         IN Some(s2)

StartSplit ==
    /\ VALIDATION_SET_SPEAKER_IDS \in SUBSET Speakers
    /\ TEST_SET_SPEAKER_IDS \in SUBSET Speakers
    /\ dataset \in Tables
    /\ splits = None
    /\ splitPc = "call"

IdleSplit ==
    /\ VALIDATION_SET_SPEAKER_IDS = {}
    /\ TEST_SET_SPEAKER_IDS = {}
    /\ dataset = <<>>
    /\ splits = None
    /\ splitPc = "off"

SplitDataset ==
    /\ splitPc = "call"
    /\ splits' = split_dataset(dataset)
    /\ splitPc' = "done"
    /\ UNCHANGED <<VALIDATION_SET_SPEAKER_IDS, TEST_SET_SPEAKER_IDS, dataset>>
    /\ UNCHANGED splitRest

-----------------------------------------------------------------------------
\* ---- Fine-tuning corpus (data.py: load_data_for_finetuning)
\*
\* The function is run by two processes one after the other (Runs); both
\* read the same configuration, each has its own config.seed.  A seeded
\* random generator is a function of its seed that nobody knows in advance:
\* rng_perm and rng_draws record what a generator seeded with a key gave the
\* first time it was asked, and every later use of the same key gets the
\* same answer.

MaxSourceLen == 2
MaxDraws == 4

Runs == {1, 2}

\* The values of config.seed: two runs have the same seed or two seeds.
Seeds == {1, 2}

\* The entropy run r draws from the operating system when it seeds a
\* generator with nothing.
Entropy(r) == Cardinality(Seeds) + r

\* Keys of the random generators: a seed, or the entropy of a run.
Keys == Seeds \cup {Entropy(r) : r \in Runs}

\* The kinds of source record: without a "validated" column ("plain"), with
\* status approved, maybe or rejected, or approved but too long ("long").
Kinds == {"plain", "approved", "maybe", "rejected", "long"}

\* The source record of kind k whose audio is stored under path p; the
\* columns apart from audio and text are dropped by the loader.
SourceRecord(p, k) ==
    LET audio == [path |-> p,
                  array_len |-> IF k = "long" THEN 3 ELSE 1,
                  sampling_rate |-> 1]
    IN IF k = "plain"
       THEN [audio |-> audio, text |-> <<"A", "a">>]
       ELSE [audio |-> audio, text |-> <<"A", "a">>,
             validated |-> IF k = "long" THEN "approved" ELSE k]

\* Source number k with records of the given kinds.
SourceOf(k, kinds) ==
    [j \in 1..Len(kinds) |-> SourceRecord(<<k, j>>, kinds[j])]

KindSeqs(K) == UNION {[1..n -> K] : n \in 1..MaxSourceLen}

\* config.datasets: one or two sources.
Corpora(K) ==
    {<<SourceOf(1, a)>> : a \in KindSeqs(K)}
    \cup {<<SourceOf(1, a), SourceOf(2, b)>> :
             a \in KindSeqs(K), b \in KindSeqs(K)}

\* Probabilities are counted in tenths: ProbabilityOne stands for 1.
ProbabilityOne == 10

\* config.dataset_probabilities for n sources: not given, or a list.
ProbabilityOptions(n) ==
    {None} \cup
    (IF n = 1 THEN {Some(<<10>>), Some(<<4>>)}
     ELSE {Some(<<10, 0>>), Some(<<5, 4>>)})

\* config.evaluation_dataset: one record of each kind in K.
EvaluationDataset(K) ==
    LET InK(k) == k \in K
    IN SourceOf(0, SelectSeq(<<"plain", "approved", "maybe", "rejected",
                              "long">>, InK))

Configs(K) ==
    UNION {
        {[datasets |-> c,
          evaluation_dataset |-> EvaluationDataset(K),
          filter_dataset |-> f,
          min_seconds_per_example |-> 0,
          max_seconds_per_example |-> 3,
          dataset_probabilities |-> p,
          clean_text |-> TRUE,
          characters_to_keep |-> None,
          lower_case |-> TRUE,
          sampling_rate |-> Some(2)] :
            f \in BOOLEAN, p \in ProbabilityOptions(Len(c))} :
        c \in Corpora(K)}

RECURSIVE Sum(_)
Sum(s) == IF s = <<>> THEN 0 ELSE Head(s) + Sum(Tail(s))

\* ds.remove_columns(every column but audio and text)
remove_columns(ds) ==
    [i \in DOMAIN ds |-> [audio |-> ds[i].audio, text |-> ds[i].text]]

\* ds.shuffle(seed): the rows in the order the generator's permutation gives.
shuffle(ds, perm) == [i \in DOMAIN ds |-> ds[perm[i]]]

\* filter_dataset on one split: the rows filter_example keeps, in order.
filter_dataset(ds, remove_maybe, min_seconds, max_seconds) ==
    SelectRows(ds, [i \in DOMAIN ds |->
        filter_example(ds[i], remove_maybe, min_seconds, max_seconds)])

\* The variant of cast_column that keeps the audio column only.
cast_column_audio_only(ds, rate) ==
    [i \in DOMAIN ds |->
        [audio |-> IF rate = None THEN ds[i].audio
                   ELSE [ds[i].audio EXCEPT !.sampling_rate = Get(rate)]]]

\* dataset.cast_column(audio, Audio(sampling_rate)): the audio is decoded at
\* the given rate (resampled), or as stored when no rate is given.
cast_column(ds, rate) ==
    [i \in DOMAIN ds |->
        IF rate = None THEN ds[i]
        ELSE [ds[i] EXCEPT !.audio =
                 [@ EXCEPT !.array_len = (@ * Get(rate))
                                             \div ds[i].audio.sampling_rate,
                           !.sampling_rate = Get(rate)]]]

process_dataset(ds, clean_text, keep, lower, rate) ==
    LET cast == cast_column(ds, rate)
    IN IF ~clean_text THEN cast
       ELSE [i \in DOMAIN cast |->
                process_example(cast[i], keep, conversion_dict, lower)]

\* The body of the loop over config.datasets for one source.
PrepareSource(ds, perm) ==
    LET shuffled == shuffle(remove_columns(ds), perm)
        filtered == IF config.filter_dataset
                    THEN filter_dataset(shuffled, FALSE,
                                        config.min_seconds_per_example,
                                        config.max_seconds_per_example)
                    ELSE shuffled
    IN process_dataset(filtered, config.clean_text,
                       config.characters_to_keep, config.lower_case,
                       config.sampling_rate)

\* The permutations of 1..n.
Perms(n) ==
    {p \in [1..n -> 1..n] : \A i, j \in 1..n : p[i] = p[j] => i = j}

\* What a generator with this key gives as the permutation of n rows.
PermChoices(key, n) ==
    IF rng_perm[key][n] # <<>> THEN {rng_perm[key][n]} ELSE Perms(n)

\* What a generator with this key gives as its t-th source index; a source
\* of probability 0 is never drawn.
DrawChoices(key, t, probabilities) ==
    IF t <= Len(rng_draws[key]) THEN {rng_draws[key][t]}
    ELSE {i \in DOMAIN probabilities : probabilities[i] > 0}

\* probabilities = [1 / n] * n; probabilities[-1] = 1 - sum(probabilities[:-1])
DefaultProbabilities(n) ==
    [i \in 1..n |-> IF i < n THEN ProbabilityOne \div n
                    ELSE ProbabilityOne - (n - 1) * (ProbabilityOne \div n)]

Probabilities ==
    IF config.dataset_probabilities = None
    THEN DefaultProbabilities(Len(config.datasets))
    ELSE Get(config.dataset_probabilities)

\* elif sum(probabilities) != 1: raise ValueError
ProbabilitiesRejected ==
    IF config.dataset_probabilities = None THEN FALSE
    ELSE Sum(Get(config.dataset_probabilities)) # ProbabilityOne

\* The variant interleave_datasets(..., seed=None): every run takes fresh
\* entropy.
InterleaveSeed_unseeded(r) == Entropy(r)

\* ds.shuffle(seed=config.seed)
ShuffleSeed(r) == seed[r]

\* interleave_datasets(..., seed=config.seed)
InterleaveSeed(r) == seed[r]

\* stopping_strategy="first_exhausted": stop once any source has run out.
StopInterleaving_first_exhausted(exhausted) ==
    \E i \in DOMAIN exhausted : exhausted[i]

\* stopping_strategy="all_exhausted": stop once every source has run out.
StopInterleaving(exhausted) ==
    \A i \in DOMAIN exhausted : exhausted[i]

IdleFinetune ==
    /\ config = [datasets |-> <<>>]
    /\ seed = [r \in Runs |-> 1]
    /\ ftPc = [r \in Runs |-> "off"]
    /\ all_datasets = [r \in Runs |-> <<>>]
    /\ current_index = [r \in Runs |-> <<>>]
    /\ is_exhausted = [r \in Runs |-> <<>>]
    /\ draws = [r \in Runs |-> 0]
    /\ train = [r \in Runs |-> <<>>]
    /\ val = [r \in Runs |-> <<>>]
    /\ rng_perm = [k \in Keys |-> [n \in 1..MaxSourceLen |-> <<>>]]
    /\ rng_draws = [k \in Keys |-> <<>>]

\* Two runs of the function, one after the other, on configurations whose
\* records are of the kinds K and whose seeds are in S; the seed of the
\* first run is called 1.
StartRuns(K, S) ==
    /\ config \in Configs(K)
    /\ seed \in {s \in [Runs -> S] : s[1] = 1}
    /\ ftPc = [r \in Runs |-> IF r = 1 THEN "load" ELSE "wait"]
    /\ all_datasets = [r \in Runs |-> <<>>]
    /\ current_index = [r \in Runs |-> <<>>]
    /\ is_exhausted = [r \in Runs |-> <<>>]
    /\ draws = [r \in Runs |-> 0]
    /\ train = [r \in Runs |-> <<>>]
    /\ val = [r \in Runs |-> <<>>]
    /\ rng_perm = [k \in Keys |-> [n \in 1..MaxSourceLen |-> <<>>]]
    /\ rng_draws = [k \in Keys |-> <<>>]

\* Both runs with seed 1, over records that carry a validation status.
StartFinetune == StartRuns(Kinds \ {"plain"}, {1})

\* Each run with a seed of its own, over plain records.
StartReproduce == StartRuns({"plain"}, Seeds)

\* The second process calls the function once the first has returned.
Launch(r) ==
    /\ ftPc[r] = "wait"
    /\ ftPc[r - 1] \in {"done", "error"}
    /\ ftPc' = [ftPc EXCEPT ![r] = "load"]
    /\ UNCHANGED <<config, seed, all_datasets, current_index, is_exhausted,
                   draws, train, val, rng_perm, rng_draws>>
    /\ UNCHANGED ftRest

\* One pass of the loop over config.datasets: load the next source, drop its
\* other columns, shuffle, filter, process, append.
LoadSource(r) ==
    /\ ftPc[r] = "load"
    /\ Len(all_datasets[r]) < Len(config.datasets)
    /\ LET ds == config.datasets[Len(all_datasets[r]) + 1]
           key == ShuffleSeed(r)
       IN \E perm \in PermChoices(key, Len(ds)) :
              /\ rng_perm' = [rng_perm EXCEPT ![key][Len(ds)] = perm]
              /\ all_datasets' = [all_datasets EXCEPT
                     ![r] = Append(@, PrepareSource(ds, perm))]
    /\ UNCHANGED <<config, seed, ftPc, current_index, is_exhausted, draws,
                   train, val, rng_draws>>
    /\ UNCHANGED ftRest

\* A single source: train = all_datasets[0].
SingleSource(r) ==
    /\ ftPc[r] = "load"
    /\ Len(all_datasets[r]) = Len(config.datasets)
    /\ ~(Len(all_datasets[r]) > 1)
    /\ train' = [train EXCEPT ![r] = all_datasets[r][1]]
    /\ ftPc' = [ftPc EXCEPT ![r] = "val"]
    /\ UNCHANGED <<config, seed, all_datasets, current_index, is_exhausted,
                   draws, val, rng_perm, rng_draws>>
    /\ UNCHANGED ftRest

\* Several sources with explicit probabilities that do not sum to 1.
RaiseValueError(r) ==
    /\ ftPc[r] = "load"
    /\ Len(all_datasets[r]) = Len(config.datasets)
    /\ Len(all_datasets[r]) > 1
    /\ ProbabilitiesRejected
    /\ ftPc' = [ftPc EXCEPT ![r] = "error"]
    /\ UNCHANGED <<config, seed, all_datasets, current_index, is_exhausted,
                   draws, train, val, rng_perm, rng_draws>>
    /\ UNCHANGED ftRest

\* Several sources: interleave_datasets starts with every source at its
\* first row and none exhausted.
StartInterleave(r) ==
    /\ ftPc[r] = "load"
    /\ Len(all_datasets[r]) = Len(config.datasets)
    /\ Len(all_datasets[r]) > 1
    /\ ~ProbabilitiesRejected
    /\ current_index' = [current_index EXCEPT
           ![r] = [i \in DOMAIN all_datasets[r] |-> 0]]
    /\ is_exhausted' = [is_exhausted EXCEPT
           ![r] = [i \in DOMAIN all_datasets[r] |-> FALSE]]
    /\ ftPc' = [ftPc EXCEPT ![r] = "interleave"]
    /\ UNCHANGED <<config, seed, all_datasets, draws, train, val, rng_perm,
                   rng_draws>>
    /\ UNCHANGED ftRest

\* One draw of the interleaving: the generator names a source, whose next
\* row joins the stream; a source that has given its last row is marked
\* exhausted and starts again from its first row.
Draw(r) ==
    /\ ftPc[r] = "interleave"
    /\ ~StopInterleaving(is_exhausted[r])
    /\ draws[r] < MaxDraws
    /\ LET key == InterleaveSeed(r)
           t == draws[r] + 1
       IN \E i \in DrawChoices(key, t, Probabilities) :
              LET ds == all_datasets[r][i]
                  next == current_index[r][i] + 1
              IN /\ rng_draws' =
                        IF t > Len(rng_draws[key])
                        THEN [rng_draws EXCEPT ![key] = Append(@, i)]
                        ELSE rng_draws
                 /\ draws' = [draws EXCEPT ![r] = t]
                 /\ train' = IF Len(ds) = 0 THEN train
                             ELSE [train EXCEPT ![r] = Append(@, ds[next])]
                 /\ current_index' = [current_index EXCEPT
                        ![r][i] = IF next >= Len(ds) THEN 0 ELSE next]
                 /\ is_exhausted' = [is_exhausted EXCEPT
                        ![r][i] = @ \/ next >= Len(ds)]
    /\ UNCHANGED <<config, seed, ftPc, all_datasets, val, rng_perm>>
    /\ UNCHANGED ftRest

\* The interleaving stops: every source has been exhausted.
StopDrawing(r) ==
    /\ ftPc[r] = "interleave"
    /\ StopInterleaving(is_exhausted[r])
    /\ ftPc' = [ftPc EXCEPT ![r] = "val"]
    /\ UNCHANGED <<config, seed, all_datasets, current_index, is_exhausted,
                   draws, train, val, rng_perm, rng_draws>>
    /\ UNCHANGED ftRest

\* The validation split is loaded and processed, and the corpus returned.
LoadValidation(r) ==
    /\ ftPc[r] = "val"
    /\ val' = [val EXCEPT ![r] =
           process_dataset(config.evaluation_dataset, config.clean_text,
                           config.characters_to_keep, config.lower_case,
                           config.sampling_rate)]
    /\ ftPc' = [ftPc EXCEPT ![r] = "done"]
    /\ UNCHANGED <<config, seed, all_datasets, current_index, is_exhausted,
                   draws, train, rng_perm, rng_draws>>
    /\ UNCHANGED ftRest

-----------------------------------------------------------------------------
\* ---- Corpus build (build_coral_asr.py: main, build_read_aloud_dataset,
\* ---- build_conversation_dataset, upload_dataset)
\*
\* main is followed from the point where the raw files have been copied
\* (the copy is modelled on its own below).  The metadata rows are what the
\* selection query returns; a listing is what list_audio_files returns for
\* one subdirectory of the audio directory, or None when it raises OSError.

MaxRecordings == 3

RecordingIds == 1..MaxRecordings

\* The stems of the audio files: a recording id, or 0 for a file that no
\* metadata row names.
Stems == 0..MaxRecordings

\* The speaker of a recording (the join with the Speakers table).
SpeakerOf(id) == ((id - 1) % NumSpeakers) + 1

\* The fetched rows: every recording at most once, in any order.
MetadataRows ==
    {[i \in DOMAIN ids |->
         [id_recording |-> ids[i], id_speaker |-> SpeakerOf(ids[i])]] :
        ids \in {s \in SeqsUpTo(RecordingIds, MaxRecordings) :
                    \A i, j \in DOMAIN s : s[i] = s[j] => i = j}}

\* The sequence of the elements of a set of numbers, in increasing order.
RECURSIVE Sorted(_)
Sorted(S) ==
    IF S = {} THEN <<>>
    ELSE LET m == CHOOSE x \in S : \A y \in S : x <= y
         IN <<m>> \o Sorted(S \ {m})

\* The *.wav files of subdirectory k whose stems are in S.
Listing(k, S) ==
    LET stems == Sorted(S)
    IN [i \in DOMAIN stems |-> [parent |-> k, stem |-> stems[i]]]

\* One or two subdirectories, each with its listing or a failure to list.
ListingOutcomes(k) == {None} \cup {Some(Listing(k, S)) : S \in SUBSET Stems}

AudioListings ==
    {<<a>> : a \in ListingOutcomes(1)}
    \cup {<<a, b>> : a \in ListingOutcomes(1), b \in ListingOutcomes(2)}

RECURSIVE Flatten(_)
Flatten(lists) ==
    IF lists = <<>> THEN <<>> ELSE Head(lists) \o Flatten(Tail(lists))

\* {path.stem: path for path_list in lists for path in path_list}: a later
\* path replaces an earlier one with the same stem.
all_audio_paths(path_lists) ==
    LET flat == Flatten(path_lists)
        Last(st) == CHOOSE i \in DOMAIN flat :
                        /\ flat[i].stem = st
                        /\ \A j \in DOMAIN flat : flat[j].stem = st => j <= i
    IN [st \in {flat[i].stem : i \in DOMAIN flat} |-> flat[Last(st)]]

\* The variant of the match that keeps the rows without an audio file (a
\* left join), with a path of stem 0 in place of the missing file.
MatchRows_left_join(metadata, paths) ==
    [i \in DOMAIN metadata |->
        [id_recording |-> metadata[i].id_recording,
         id_speaker |-> metadata[i].id_speaker,
         audio |-> IF metadata[i].id_recording \in DOMAIN paths
                   THEN paths[metadata[i].id_recording]
                   ELSE [parent |-> 0, stem |-> 0]]]

\* rows = [row + [audio_path] for row, audio_path in zip(rows, matched)
\*         if audio_path is not None]
MatchRows(metadata, paths) ==
    LET matched == SelectRows(metadata,
            [i \in DOMAIN metadata |->
                metadata[i].id_recording \in DOMAIN paths])
    IN [i \in DOMAIN matched |->
           [id_recording |-> matched[i].id_recording,
            id_speaker |-> matched[i].id_speaker,
            audio |-> paths[matched[i].id_recording]]]

\* build_read_aloud_dataset, when every listing succeeds.
build_read_aloud_dataset(metadata, listings) ==
    MatchRows(metadata,
              all_audio_paths([k \in DOMAIN listings |-> Get(listings[k])]))

\* build_conversation_dataset: Dataset.from_dict({})
build_conversation_dataset == <<>>

IdleBuild ==
    /\ rows = <<>>
    /\ audio_listings = <<>>
    /\ read_aloud_dataset = None
    /\ conversation_dataset = None
    /\ uploaded = <<>>
    /\ mainPc = "off"

\* The start of main, with the two module-level speaker lists filled in.
StartBuild ==
    /\ rows \in MetadataRows
    /\ audio_listings \in AudioListings
    /\ read_aloud_dataset = None
    /\ conversation_dataset = None
    /\ uploaded = <<>>
    /\ mainPc = "build_read_aloud"
    /\ VALIDATION_SET_SPEAKER_IDS \in SUBSET {1}
    /\ TEST_SET_SPEAKER_IDS \in SUBSET {2}
    /\ dataset = <<>>
    /\ splits = None
    /\ splitPc = "off"

\* read_aloud_dataset = build_read_aloud_dataset(...); an OSError of
\* list_audio_files ends main.
BuildReadAloud ==
    /\ mainPc = "build_read_aloud"
    /\ IF \E k \in DOMAIN audio_listings : audio_listings[k] = None
       THEN /\ mainPc' = "OSError"
            /\ UNCHANGED read_aloud_dataset
       ELSE /\ read_aloud_dataset' =
                   Some(build_read_aloud_dataset(rows, audio_listings))
            /\ mainPc' = "build_conversation"
    /\ UNCHANGED <<rows, audio_listings, conversation_dataset, uploaded>>
    /\ UNCHANGED buildRest

\* conversation_dataset = build_conversation_dataset(...)
BuildConversation ==
    /\ mainPc = "build_conversation"
    /\ conversation_dataset' = Some(build_conversation_dataset)
    /\ mainPc' = "split"
    /\ UNCHANGED <<rows, audio_listings, read_aloud_dataset, uploaded>>
    /\ UNCHANGED buildRest

\* Both tables are replaced by what split_dataset returns for them.
SplitDatasets ==
    /\ mainPc = "split"
    /\ read_aloud_dataset' = split_dataset(Get(read_aloud_dataset))
    /\ conversation_dataset' = split_dataset(Get(conversation_dataset))
    /\ mainPc' = "upload"
    /\ UNCHANGED <<rows, audio_listings, uploaded>>
    /\ UNCHANGED buildRest

\* upload_dataset pushes each subset that is not None; then main ends.
UploadDataset ==
    /\ mainPc = "upload"
    /\ uploaded' =
           (IF read_aloud_dataset # None
            THEN <<[config_name |-> "read_aloud",
                    data |-> Get(read_aloud_dataset)]>> ELSE <<>>)
           \o (IF conversation_dataset # None
               THEN <<[config_name |-> "conversation",
                       data |-> Get(conversation_dataset)]>> ELSE <<>>)
    /\ mainPc' = "done"
    /\ UNCHANGED <<rows, audio_listings, read_aloud_dataset,
                   conversation_dataset>>
    /\ UNCHANGED buildRest

-----------------------------------------------------------------------------
\* ---- Copy of the raw files (build_coral_asr.py: copy_audio_directory_to_cwd,
\* ---- compress_dir, decompress_file)
\*
\* A subdirectory of the audio directory is a unit.  Its archive, next to
\* it or copied, is absent ("none"), readable ("good") or corrupted
\* ("corrupt"); its directory in the copy is absent ("none") or complete.
\* Archives and extracted directories can be left over from an earlier run.
\* The jobs of one batch run in threads, in any order.

MaxUnits == 2

ArchiveStates == {"none", "good", "corrupt"}

\* compress_dir: the archive is written unless one exists already.
compress_dir(archive) == IF archive = "none" THEN "good" ELSE archive

\* decompress_file: what it leaves in the copy for a unit whose source
\* archive, copied archive and extracted directory are in the given states.
\* A failed extraction is caught inside: the partial directory is removed,
\* the copied archive is unlinked, and no exception leaves the function.
decompress_file(src, copied, extracted) ==
    IF extracted # "none" THEN [copied |-> copied, extracted |-> extracted]
    ELSE LET archive == IF copied = "none" THEN src ELSE copied
         IN [copied |-> "none",
             extracted |-> IF archive = "good" THEN "complete" ELSE "none"]

IdleCopy ==
    /\ audio_subdirs = {}
    /\ source_archive = <<>>
    /\ copied_archive = <<>>
    /\ extracted_dir = <<>>
    /\ compress_done = {}
    /\ to_decompress = {}
    /\ copyPc = "off"

StartCopy ==
    /\ \E n \in 0..MaxUnits : audio_subdirs = 1..n
    /\ source_archive \in [audio_subdirs -> ArchiveStates]
    /\ copied_archive \in [audio_subdirs -> ArchiveStates]
    /\ extracted_dir \in [audio_subdirs -> {"none", "complete"}]
    /\ compress_done = {}
    /\ to_decompress = {}
    /\ copyPc = "start"

\* No subdirectory: the new directory is returned at once.
ReturnEmpty ==
    /\ copyPc = "start"
    /\ audio_subdirs = {}
    /\ copyPc' = "returned"
    /\ UNCHANGED <<audio_subdirs, source_archive, copied_archive,
                   extracted_dir, compress_done, to_decompress>>
    /\ UNCHANGED copyRest

\* The loop body starts: the compress jobs are handed to the threads.
StartCompress ==
    /\ copyPc = "start"
    /\ audio_subdirs # {}
    /\ copyPc' = "compress"
    /\ UNCHANGED <<audio_subdirs, source_archive, copied_archive,
                   extracted_dir, compress_done, to_decompress>>
    /\ UNCHANGED copyRest

\* The compress job of one subdirectory.
CompressDir(u) ==
    /\ copyPc = "compress"
    /\ u \notin compress_done
    /\ source_archive' = [source_archive EXCEPT ![u] = compress_dir(@)]
    /\ compress_done' = compress_done \cup {u}
    /\ UNCHANGED <<audio_subdirs, copied_archive, extracted_dir,
                   to_decompress, copyPc>>
    /\ UNCHANGED copyRest

\* All compress jobs are done: audio_dir.glob("*.tar.xz") names the
\* archives, and the decompress jobs are handed to the threads.
StartDecompress ==
    /\ copyPc = "compress"
    /\ compress_done = audio_subdirs
    /\ to_decompress' = {u \in audio_subdirs : source_archive[u] # "none"}
    /\ copyPc' = "decompress"
    /\ UNCHANGED <<audio_subdirs, source_archive, copied_archive,
                   extracted_dir, compress_done>>
    /\ UNCHANGED copyRest

\* The decompress job of one archive.
DecompressFile(u) ==
    /\ copyPc = "decompress"
    /\ u \in to_decompress
    /\ LET left == decompress_file(source_archive[u], copied_archive[u],
                                   extracted_dir[u])
       IN /\ copied_archive' = [copied_archive EXCEPT ![u] = left.copied]
          /\ extracted_dir' = [extracted_dir EXCEPT ![u] = left.extracted]
    /\ to_decompress' = to_decompress \ {u}
    /\ UNCHANGED <<audio_subdirs, source_archive, compress_done, copyPc>>
    /\ UNCHANGED copyRest

\* All decompress jobs are done without an exception: break, and return.
ReturnCopied ==
    /\ copyPc = "decompress"
    /\ to_decompress = {}
    /\ copyPc' = "returned"
    /\ UNCHANGED <<audio_subdirs, source_archive, copied_archive,
                   extracted_dir, compress_done, to_decompress>>
    /\ UNCHANGED copyRest

-----------------------------------------------------------------------------
\* ---- Listing with retries (build_coral_asr.py: list_audio_files)
\*
\* Whether an attempt to list the directory succeeds is decided by the file
\* system: each attempt either returns the files or fails with OSError.

MaxAttempts == 3

\* The variant of the loop condition that allows one attempt too many.
attempts_left_one_more(made, maximum) == made <= maximum

\* for _ in range(max_attempts): another pass of the loop is due.
attempts_left(made, maximum) == made < maximum

IdleList ==
    /\ wav_files = <<>>
    /\ max_attempts = 0
    /\ attempts = 0
    /\ slept = 0
    /\ listed = None
    /\ listPc = "off"

StartList ==
    /\ wav_files \in {Listing(1, S) : S \in SUBSET Stems}
    /\ max_attempts \in 0..MaxAttempts
    /\ attempts = 0
    /\ slept = 0
    /\ listed = None
    /\ listPc = "loop"

\* An attempt that succeeds: return list(audio_dir.glob("*.wav")).
AttemptSucceeds ==
    /\ listPc = "loop"
    /\ attempts_left(attempts, max_attempts)
    /\ attempts' = attempts + 1
    /\ listed' = Some(wav_files)
    /\ listPc' = "returned"
    /\ UNCHANGED <<wav_files, max_attempts, slept>>
    /\ UNCHANGED listRest

\* An attempt that fails: except OSError: sleep(1).
AttemptFails ==
    /\ listPc = "loop"
    /\ attempts_left(attempts, max_attempts)
    /\ attempts' = attempts + 1
    /\ slept' = slept + 1
    /\ UNCHANGED <<wav_files, max_attempts, listed, listPc>>
    /\ UNCHANGED listRest

\* The loop ran out: the else clause raises OSError.
RaiseOSError ==
    /\ listPc = "loop"
    /\ ~attempts_left(attempts, max_attempts)
    /\ listPc' = "OSError"
    /\ UNCHANGED <<wav_files, max_attempts, attempts, slept, listed>>
    /\ UNCHANGED listRest

-----------------------------------------------------------------------------
\* ---- process_dataset on its own (data.py: process_dataset)

IdleProcess ==
    /\ unprocessed = <<>>
    /\ proc_clean_text = FALSE
    /\ proc_lower_case = FALSE
    /\ cast_to_sampling_rate = None
    /\ processed = None

\* A dataset of up to MaxSourceLen records of any kind, stored at rate 1.
StartProcess ==
    /\ unprocessed \in {SourceOf(0, kinds) :
                           kinds \in {<<>>} \cup KindSeqs(Kinds)}
    /\ proc_clean_text \in BOOLEAN
    /\ proc_lower_case \in BOOLEAN
    /\ cast_to_sampling_rate \in {None, Some(1), Some(2)}
    /\ processed = None

\* process_dataset(dataset, clean_text, None, "text", "audio", lower_case,
\*                 cast_to_sampling_rate)
ProcessDataset ==
    /\ processed = None
    /\ processed' = Some(process_dataset(unprocessed, proc_clean_text, None,
                                         proc_lower_case,
                                         cast_to_sampling_rate))
    /\ UNCHANGED <<unprocessed, proc_clean_text, proc_lower_case,
                   cast_to_sampling_rate>>
    /\ UNCHANGED procRest

-----------------------------------------------------------------------------
\* ---- Terminal output (utils.py: block_terminal_output,
\* ---- transformers_output_ignored)

\* The most contexts nested in one another.
MaxDepth == 2

\* The verbosity levels of the logging module.
Levels == {"DEBUG", "INFO", "WARNING", "ERROR", "CRITICAL"}

\* The loggers block_terminal_output silences by name.
NamedLoggers == {"accelerate", "pyctcdecode"}

\* The output settings of the process as block_terminal_output sees them.
OutputSettings ==
    [ds_verbosity |-> ds_verbosity,
     progress_bar_enabled |-> progress_bar_enabled,
     ignored_warnings |-> ignored_warnings,
     logger_levels |-> logger_levels]

\* The variant of block_terminal_output that leaves the progress bars alone.
block_terminal_output_bars_kept(settings) ==
    [ds_verbosity |-> "ERROR",
     progress_bar_enabled |-> settings.progress_bar_enabled,
     ignored_warnings |->
         settings.ignored_warnings \cup {"UserWarning", "RuntimeWarning"},
     logger_levels |-> [l \in NamedLoggers |-> "ERROR"]]

\* block_terminal_output(): two warnings filters, the datasets verbosity,
\* the two named loggers, the datasets progress bars.
block_terminal_output(settings) ==
    [ds_verbosity |-> "ERROR",
     progress_bar_enabled |-> FALSE,
     ignored_warnings |->
         settings.ignored_warnings \cup {"UserWarning", "RuntimeWarning"},
     logger_levels |-> [l \in NamedLoggers |-> "ERROR"]]

\* A fresh process: both libraries log at WARNING, progress bars are on, no
\* filter is installed and no logger has a level of its own.
IdleLogging ==
    /\ hf_verbosity = "WARNING"
    /\ ds_verbosity = "WARNING"
    /\ progress_bar_enabled = TRUE
    /\ ignored_warnings = {}
    /\ logger_levels = [l \in NamedLoggers |-> "NOTSET"]
    /\ contexts = 0
    /\ entry_verbosity = <<>>
    /\ left_context = None
    /\ blocked_from = None

\* The libraries at any verbosity, as earlier calls of their own setters
\* (set_verbosity, enable_progress_bar, disable_progress_bar) leave them.
StartLogging ==
    /\ hf_verbosity \in Levels
    /\ ds_verbosity \in Levels
    /\ progress_bar_enabled \in BOOLEAN
    /\ ignored_warnings = {}
    /\ logger_levels = [l \in NamedLoggers |-> "NOTSET"]
    /\ contexts = 0
    /\ entry_verbosity = <<>>
    /\ left_context = None
    /\ blocked_from = None

\* block_terminal_output()
BlockTerminalOutput ==
    /\ LET new == block_terminal_output(OutputSettings)
       IN /\ ds_verbosity' = new.ds_verbosity
          /\ progress_bar_enabled' = new.progress_bar_enabled
          /\ ignored_warnings' = new.ignored_warnings
          /\ logger_levels' = new.logger_levels
    /\ blocked_from' = Some([ds_verbosity |-> ds_verbosity,
                             progress_bar_enabled |-> progress_bar_enabled])
    /\ UNCHANGED <<hf_verbosity, contexts, entry_verbosity, left_context>>
    /\ UNCHANGED logRest

\* The tests' teardown: ds_logging.set_verbosity_warning() and
\* enable_progress_bar().
OutputBlockedExit ==
    /\ blocked_from # None
    /\ ds_verbosity' = "WARNING"
    /\ progress_bar_enabled' = TRUE
    /\ blocked_from' = None
    /\ UNCHANGED <<hf_verbosity, ignored_warnings, logger_levels, contexts,
                   entry_verbosity, left_context>>
    /\ UNCHANGED logRest

\* transformers_output_ignored.__enter__
EnterContext ==
    /\ contexts < MaxDepth
    /\ hf_verbosity' = "ERROR"
    /\ contexts' = contexts + 1
    /\ entry_verbosity' = Append(entry_verbosity, hf_verbosity)
    /\ UNCHANGED left_context
    /\ UNCHANGED <<ds_verbosity, progress_bar_enabled, ignored_warnings,
                   logger_levels, blocked_from>>
    /\ UNCHANGED logRest

\* transformers_output_ignored.__exit__, reached when the body returns and
\* when it raises alike.
ExitContext ==
    /\ contexts > 0
    /\ hf_verbosity' = "INFO"
    /\ contexts' = contexts - 1
    /\ entry_verbosity' = SubSeq(entry_verbosity, 1, contexts - 1)
    /\ left_context' = Some(entry_verbosity[contexts])
    /\ UNCHANGED <<ds_verbosity, progress_bar_enabled, ignored_warnings,
                   logger_levels, blocked_from>>
    /\ UNCHANGED logRest

-----------------------------------------------------------------------------
\* ---- filter_dataset as a whole (data.py: filter_dataset)

\* The most worker processes of a machine.
MaxProcs == 2

\* The classes a dataset argument can have.
SingleKinds == {"Dataset", "IterableDataset"}
MappingKinds == {"DatasetDict", "IterableDatasetDict"}

\* The name under which the records of a single table or stream are kept.
Unsplit == "dataset"

\* The splits of a mapping and the names a caller passes as train_name.
SplitNames == {"train", "val"}
TrainNames == {"train", "test"}
SplitIndex(name) == IF name = "train" THEN 1 ELSE 2

\* The kinds of records of a split: in the duration bounds, with a status.
StatusKinds == {"approved", "maybe", "rejected"}

Min(a, b) == IF a < b THEN a ELSE b

\* Dataset.shard(num_shards, index, contiguous=True), index from 0.
Shard(ds, num_shards, index) ==
    LET div == Len(ds) \div num_shards
        mod == Len(ds) % num_shards
        start == div * index + Min(index, mod)
        end == start + div + (IF index < mod THEN 1 ELSE 0)
    IN SubSeq(ds, start + 1, end)

\* The variant of Dataset.filter that puts the workers' shards together
\* last shard first.
RECURSIVE DatasetFilterShards_reversed(_, _, _, _, _, _)
DatasetFilterShards_reversed(ds, shards, index, remove_maybe, lo, hi) ==
    IF index = shards THEN <<>>
    ELSE DatasetFilterShards_reversed(ds, shards, index + 1, remove_maybe,
                                      lo, hi)
         \o SelectSeq(Shard(ds, shards, index),
                      LAMBDA r : filter_example(r, remove_maybe, lo, hi))

\* Dataset.filter(filter_fn, num_proc): every worker filters its contiguous
\* shard between the bounds lo and hi, and the shards are put together in
\* order.
RECURSIVE DatasetFilterShards(_, _, _, _, _, _)
DatasetFilterShards(ds, shards, index, remove_maybe, lo, hi) ==
    IF index = shards THEN <<>>
    ELSE SelectSeq(Shard(ds, shards, index),
                   LAMBDA r : filter_example(r, remove_maybe, lo, hi))
         \o DatasetFilterShards(ds, shards, index + 1, remove_maybe, lo, hi)

\* dataset.filter(filter_fn, num_proc=mp.cpu_count()) on a finite table; no
\* more workers than rows, and an empty table is returned as it is.
DatasetFilter(ds, procs, remove_maybe, min_seconds, max_seconds) ==
    IF ds = <<>> THEN <<>>
    ELSE DatasetFilterShards(ds, Min(procs, Len(ds)), 0, remove_maybe,
                             min_seconds, max_seconds)

\* dataset.filter(filter_fn) on a stream: the records are tested one at a
\* time as the stream is read.
RECURSIVE IterableDatasetFilter(_, _, _, _)
IterableDatasetFilter(ds, remove_maybe, min_seconds, max_seconds) ==
    IF ds = <<>> THEN <<>>
    ELSE (IF filter_example(Head(ds), remove_maybe, min_seconds, max_seconds)
          THEN <<Head(ds)>> ELSE <<>>)
         \o IterableDatasetFilter(Tail(ds), remove_maybe, min_seconds,
                                  max_seconds)

\* The variant of the per-split policy that is strict on the training split.
remove_maybe_of_split_inverted(split_name, train_name) ==
    split_name = train_name

\* remove_maybe_validated=not split_name == train_name
remove_maybe_of_split(split_name, train_name) == ~(split_name = train_name)

\* num_samples_removed = num_samples_before - len(dataset): the length
\* subtracted is that of the argument, not that of `filtered`.
num_samples_removed(num_samples_before, ds, filtered) ==
    num_samples_before - Len(ds)

\* The two assertions at the top of filter_dataset.
AssertionsHold ==
    /\ fd_kind \in MappingKinds => fd_train_name # None
    /\ fd_kind \in SingleKinds => fd_remove_maybe_validated # None

IdleFilterDataset ==
    /\ fd_kind = "Dataset"
    /\ fd_dataset = [s \in {Unsplit} |-> <<>>]
    /\ fd_train_name = None
    /\ fd_remove_maybe_validated = None
    /\ fd_min_seconds = 0
    /\ fd_max_seconds = 0
    /\ num_proc = 1
    /\ fd_filtered = None
    /\ fd_logged = {}
    /\ fdPc = "off"

\* A call of filter_dataset: a table or a stream of up to MaxSourceLen
\* records of any kind, or a mapping of two splits of records with a status,
\* with any combination of train_name and remove_maybe_validated.
StartFilterDataset ==
    /\ fd_kind \in SingleKinds \cup MappingKinds
    /\ fd_dataset \in
           IF fd_kind \in SingleKinds
           THEN {[s \in {Unsplit} |-> SourceOf(0, kinds)] :
                    kinds \in {<<>>} \cup KindSeqs(Kinds)}
           ELSE {[s \in SplitNames |-> SourceOf(SplitIndex(s), kinds[s])] :
                    kinds \in [SplitNames ->
                                  {<<>>} \cup KindSeqs(StatusKinds)]}
    /\ fd_train_name \in {None} \cup {Some(n) : n \in TrainNames}
    /\ fd_remove_maybe_validated \in {None} \cup {Some(b) : b \in BOOLEAN}
    /\ fd_min_seconds = 0
    /\ fd_max_seconds = 3
    /\ num_proc \in 1..MaxProcs
    /\ fd_filtered = None
    /\ fd_logged = {}
    /\ fdPc = "call"

fdArguments == <<fd_kind, fd_dataset, fd_train_name,
                 fd_remove_maybe_validated, fd_min_seconds, fd_max_seconds,
                 num_proc>>

\* One of the two assertions fails: nothing is filtered.
RaiseAssertionError ==
    /\ fdPc = "call"
    /\ ~AssertionsHold
    /\ fdPc' = "AssertionError"
    /\ UNCHANGED <<fd_filtered, fd_logged>>
    /\ UNCHANGED fdArguments
    /\ UNCHANGED fdRest

\* isinstance(dataset, Dataset)
FilterDatasetTable ==
    /\ fdPc = "call"
    /\ AssertionsHold
    /\ fd_kind = "Dataset"
    /\ LET ds == fd_dataset[Unsplit]
           filtered == DatasetFilter(ds, num_proc,
                                     Get(fd_remove_maybe_validated),
                                     fd_min_seconds, fd_max_seconds)
       IN /\ fd_filtered' = Some([s \in {Unsplit} |-> filtered])
          /\ fd_logged' =
                 {<<Unsplit, num_samples_removed(Len(ds), ds, filtered)>>}
    /\ fdPc' = "returned"
    /\ UNCHANGED fdArguments
    /\ UNCHANGED fdRest

\* isinstance(dataset, IterableDataset)
FilterDatasetStream ==
    /\ fdPc = "call"
    /\ AssertionsHold
    /\ fd_kind = "IterableDataset"
    /\ fd_filtered' =
           Some([s \in {Unsplit} |->
                    IterableDatasetFilter(fd_dataset[s],
                                          Get(fd_remove_maybe_validated),
                                          fd_min_seconds, fd_max_seconds)])
    /\ fdPc' = "returned"
    /\ UNCHANGED fd_logged
    /\ UNCHANGED fdArguments
    /\ UNCHANGED fdRest

\* isinstance(dataset, DatasetDict)
FilterDatasetTables ==
    /\ fdPc = "call"
    /\ AssertionsHold
    /\ fd_kind = "DatasetDict"
    /\ LET filtered ==
               [s \in DOMAIN fd_dataset |->
                   DatasetFilter(fd_dataset[s], num_proc,
                                 remove_maybe_of_split(s, Get(fd_train_name)),
                                 fd_min_seconds, fd_max_seconds)]
       IN /\ fd_filtered' = Some(filtered)
          /\ fd_logged' =
                 {<<s, num_samples_removed(Len(fd_dataset[s]), fd_dataset[s],
                                           filtered[s])>> :
                     s \in DOMAIN fd_dataset}
    /\ fdPc' = "returned"
    /\ UNCHANGED fdArguments
    /\ UNCHANGED fdRest

\* isinstance(dataset, IterableDatasetDict)
FilterDatasetStreams ==
    /\ fdPc = "call"
    /\ AssertionsHold
    /\ fd_kind = "IterableDatasetDict"
    /\ fd_filtered' =
           Some([s \in DOMAIN fd_dataset |->
                    IterableDatasetFilter(
                        fd_dataset[s],
                        remove_maybe_of_split(s, Get(fd_train_name)),
                        fd_min_seconds, fd_max_seconds)])
    /\ fdPc' = "returned"
    /\ UNCHANGED fd_logged
    /\ UNCHANGED fdArguments
    /\ UNCHANGED fdRest

-----------------------------------------------------------------------------
\* ---- Evaluation data (data.py: load_dataset_for_evaluation;
\* ---- utils.py: convert_iterable_dataset_to_dataset)

\* The parameters of convert_iterable_dataset_to_dataset.
convert_parameters == {"iterable_dataset"}

\* The keywords load_dataset_for_evaluation calls it with.
convert_keywords == {"iterable_dataset", "split_name"}

IdleEvaluation ==
    /\ eval_stream = <<>>
    /\ eval_clean_text = FALSE
    /\ eval_sampling_rate = None
    /\ eval_dataset = <<>>
    /\ eval_returned = None
    /\ evalPc = "off"

\* load_dataset(..., streaming=True): a stream of up to MaxSourceLen records
\* of any kind.
StartEvaluation ==
    /\ eval_stream \in {SourceOf(0, kinds) :
                           kinds \in {<<>>} \cup KindSeqs(Kinds)}
    /\ eval_clean_text \in BOOLEAN
    /\ eval_sampling_rate \in {None, Some(2)}
    /\ eval_dataset = eval_stream
    /\ eval_returned = None
    /\ evalPc = "loaded"

evalConfig == <<eval_stream, eval_clean_text, eval_sampling_rate>>

\* dataset = filter_dataset(dataset, ..., remove_maybe_validated=True), with
\* the bounds of Configs
EvalFilterDataset ==
    /\ evalPc = "loaded"
    /\ eval_dataset' = IterableDatasetFilter(eval_dataset, TRUE, 0, 3)
    /\ evalPc' = "filtered"
    /\ UNCHANGED eval_returned
    /\ UNCHANGED evalConfig
    /\ UNCHANGED evalRest

\* dataset = process_dataset(dataset, ...)
EvalProcessDataset ==
    /\ evalPc = "filtered"
    /\ eval_dataset' = process_dataset(eval_dataset, eval_clean_text, None,
                                       TRUE, eval_sampling_rate)
    /\ evalPc' = "processed"
    /\ UNCHANGED eval_returned
    /\ UNCHANGED evalConfig
    /\ UNCHANGED evalRest

\* dataset = convert_iterable_dataset_to_dataset(iterable_dataset=dataset,
\* split_name=...): a keyword that is no parameter is a TypeError at the
\* call, before the body (and its breakpoint()) is reached.
EvalConvert ==
    /\ evalPc = "processed"
    /\ evalPc' = IF convert_keywords \subseteq convert_parameters
                 THEN "breakpoint" ELSE "TypeError"
    /\ UNCHANGED <<eval_dataset, eval_returned>>
    /\ UNCHANGED evalConfig
    /\ UNCHANGED evalRest

-----------------------------------------------------------------------------
\* ---- Specifications: one per component, the other components idle.

InitSplit == StartSplit /\ IdleFilter /\ IdleNormalize /\ IdleFinetune
        /\ IdleBuild /\ IdleCopy /\ IdleList /\ IdleProcess /\ IdleLogging
        /\ IdleFilterDataset /\ IdleEvaluation
NextSplit == SplitDataset
SpecSplit == InitSplit /\ [][NextSplit]_vars

InitFilter == StartFilter /\ IdleSplit /\ IdleNormalize /\ IdleFinetune
        /\ IdleBuild /\ IdleCopy /\ IdleList /\ IdleProcess /\ IdleLogging
        /\ IdleFilterDataset /\ IdleEvaluation
NextFilter == FilterExample
SpecFilter == InitFilter /\ [][NextFilter]_vars

InitNormalize == StartNormalize /\ IdleSplit /\ IdleFilter /\ IdleFinetune
        /\ IdleBuild /\ IdleCopy /\ IdleList /\ IdleProcess /\ IdleLogging
        /\ IdleFilterDataset /\ IdleEvaluation
NextNormalize == ProcessExample
SpecNormalize == InitNormalize /\ [][NextNormalize]_vars

\* process_example on texts with spaces, tabs and line breaks.
InitLayout == StartLayout /\ IdleSplit /\ IdleFilter /\ IdleFinetune
        /\ IdleBuild /\ IdleCopy /\ IdleList /\ IdleProcess /\ IdleLogging
        /\ IdleFilterDataset /\ IdleEvaluation
SpecLayout == InitLayout /\ [][NextNormalize]_vars

NextFinetune ==
    \E r \in Runs :
        \/ Launch(r)
        \/ LoadSource(r)
        \/ SingleSource(r)
        \/ RaiseValueError(r)
        \/ StartInterleave(r)
        \/ Draw(r)
        \/ StopDrawing(r)
        \/ LoadValidation(r)

\* load_data_for_finetuning over records with a validation status.
InitFinetune == StartFinetune /\ IdleSplit /\ IdleFilter /\ IdleNormalize
        /\ IdleBuild /\ IdleCopy /\ IdleList /\ IdleProcess /\ IdleLogging
        /\ IdleFilterDataset /\ IdleEvaluation
SpecFinetune == InitFinetune /\ [][NextFinetune]_vars

\* load_data_for_finetuning run twice, each run with its seed.
InitReproduce == StartReproduce /\ IdleSplit /\ IdleFilter /\ IdleNormalize
        /\ IdleBuild /\ IdleCopy /\ IdleList /\ IdleProcess /\ IdleLogging
        /\ IdleFilterDataset /\ IdleEvaluation
SpecReproduce == InitReproduce /\ [][NextFinetune]_vars

NextBuild ==
    \/ BuildReadAloud
    \/ BuildConversation
    \/ SplitDatasets
    \/ UploadDataset

\* main of build_coral_asr.py, after the raw files were copied.
InitBuild == StartBuild /\ IdleFilter /\ IdleNormalize /\ IdleFinetune
        /\ IdleCopy /\ IdleList /\ IdleProcess /\ IdleLogging
        /\ IdleFilterDataset /\ IdleEvaluation
SpecBuild == InitBuild /\ [][NextBuild]_vars

NextCopy ==
    \/ ReturnEmpty
    \/ StartCompress
    \/ \E u \in audio_subdirs : CompressDir(u)
    \/ StartDecompress
    \/ \E u \in audio_subdirs : DecompressFile(u)
    \/ ReturnCopied

\* copy_audio_directory_to_cwd on one audio directory.
InitCopy == StartCopy /\ IdleSplit /\ IdleFilter /\ IdleNormalize
        /\ IdleFinetune /\ IdleBuild /\ IdleList /\ IdleProcess /\ IdleLogging
        /\ IdleFilterDataset /\ IdleEvaluation
SpecCopy == InitCopy /\ [][NextCopy]_vars

NextList ==
    \/ AttemptSucceeds
    \/ AttemptFails
    \/ RaiseOSError

\* list_audio_files; the call keeps running until it returns or raises.
InitList == StartList /\ IdleSplit /\ IdleFilter /\ IdleNormalize
        /\ IdleFinetune /\ IdleBuild /\ IdleCopy /\ IdleProcess /\ IdleLogging
        /\ IdleFilterDataset /\ IdleEvaluation
SpecList == InitList /\ [][NextList]_vars
SpecListFair == SpecList /\ WF_vars(NextList)

InitProcess == StartProcess /\ IdleSplit /\ IdleFilter /\ IdleNormalize
        /\ IdleFinetune /\ IdleBuild /\ IdleCopy /\ IdleList /\ IdleLogging
        /\ IdleFilterDataset /\ IdleEvaluation
NextProcess == ProcessDataset
SpecProcess == InitProcess /\ [][NextProcess]_vars

NextLogging ==
    \/ BlockTerminalOutput
    \/ OutputBlockedExit
    \/ EnterContext
    \/ ExitContext

\* block_terminal_output and transformers_output_ignored in one process.
InitLogging == StartLogging /\ IdleSplit /\ IdleFilter /\ IdleNormalize
        /\ IdleFinetune /\ IdleBuild /\ IdleCopy /\ IdleList /\ IdleProcess
        /\ IdleFilterDataset /\ IdleEvaluation
SpecLogging == InitLogging /\ [][NextLogging]_vars

NextFilterDataset ==
    \/ RaiseAssertionError
    \/ FilterDatasetTable
    \/ FilterDatasetStream
    \/ FilterDatasetTables
    \/ FilterDatasetStreams

\* filter_dataset on a table, a stream or a mapping of either.
InitFilterDataset == StartFilterDataset /\ IdleSplit /\ IdleFilter
        /\ IdleNormalize /\ IdleFinetune /\ IdleBuild /\ IdleCopy /\ IdleList
        /\ IdleProcess /\ IdleLogging /\ IdleEvaluation
SpecFilterDataset == InitFilterDataset /\ [][NextFilterDataset]_vars

NextEvaluation ==
    \/ EvalFilterDataset
    \/ EvalProcessDataset
    \/ EvalConvert

\* load_dataset_for_evaluation.
InitEvaluation == StartEvaluation /\ IdleSplit /\ IdleFilter /\ IdleNormalize
        /\ IdleFinetune /\ IdleBuild /\ IdleCopy /\ IdleList /\ IdleProcess
        /\ IdleLogging /\ IdleFilterDataset
SpecEvaluation == InitEvaluation /\ [][NextEvaluation]_vars

\* Every component at once: each behaviour exercises one of them.
Init == InitSplit \/ InitFilter \/ InitNormalize \/ InitLayout \/ InitFinetune
        \/ InitReproduce \/ InitBuild \/ InitCopy \/ InitList \/ InitProcess
        \/ InitLogging \/ InitFilterDataset \/ InitEvaluation
Next == NextSplit \/ NextFilter \/ NextNormalize \/ NextFinetune \/ NextBuild
        \/ NextCopy \/ NextList \/ NextProcess \/ NextLogging
        \/ NextFilterDataset \/ NextEvaluation
Spec == Init /\ [][Next]_vars

-----------------------------------------------------------------------------
\* ---- Claims about split_dataset

\* The rows of split k of the returned mapping (none when k is omitted).
SplitRows(k) ==
    IF splits # None /\ k \in DOMAIN Get(splits)
    THEN Range(Get(splits)[k]) ELSE {}

SplitSpeakers(k) == {r.id_speaker : r \in SplitRows(k)}

SplitReturned == splitPc = "done" /\ splits # None

\* C1: with validation and test lists that are disjoint, the returned splits
\* leak no speaker: val and test share no speaker, and no speaker of val or
\* test occurs in train.
C1_NoSpeakerLeak ==
    (SplitReturned /\ VALIDATION_SET_SPEAKER_IDS \cap TEST_SET_SPEAKER_IDS = {})
    => /\ SplitSpeakers("val") \cap SplitSpeakers("test") = {}
       /\ (SplitSpeakers("val") \cup SplitSpeakers("test"))
              \cap SplitSpeakers("train") = {}

C1_Witness ==
    /\ SplitReturned
    /\ VALIDATION_SET_SPEAKER_IDS \cap TEST_SET_SPEAKER_IDS = {}
    /\ SplitRows("train") # {}
    /\ SplitRows("val") # {}
    /\ SplitRows("test") # {}

\* C2 (as claimed): for any lists, every record is in exactly one split, by
\* the precedence validation > test > train; a speaker in both lists has its
\* records in val only.
C2_PrecedenceAsClaimed ==
    SplitReturned =>
        \A r \in Range(dataset) :
            LET home == IF r.id_speaker \in VALIDATION_SET_SPEAKER_IDS
                        THEN "val"
                        ELSE IF r.id_speaker \in TEST_SET_SPEAKER_IDS
                             THEN "test" ELSE "train"
            IN \A k \in {"train", "val", "test"} :
                   (r \in SplitRows(k)) <=> (k = home)

-----------------------------------------------------------------------------
\* ---- Claims about filter_example

\* The duration d = array_len / sampling_rate of the record, as its whole
\* seconds and the samples left over.
WholeSeconds == sample.audio.array_len \div sample.audio.sampling_rate
LeftOver == sample.audio.array_len % sample.audio.sampling_rate

\* min < d and d < max, for whole-second bounds.
LongerThanMin ==
    \/ WholeSeconds > min_seconds_per_example
    \/ WholeSeconds = min_seconds_per_example /\ LeftOver > 0
ShorterThanMax == WholeSeconds < max_seconds_per_example

HasStatus(v) == "validated" \in DOMAIN sample /\ sample.validated = v
NoStatus == "validated" \notin DOMAIN sample

\* C4: for a record whose duration is strictly inside the bounds, with
\* remove_maybe_validated the statuses maybe and rejected are dropped, without
\* it only rejected is dropped, and a record with no validation field is kept
\* under either setting.
C4_StatusPolicy ==
    (kept # None /\ LongerThanMin /\ ShorterThanMax) =>
        /\ remove_maybe_validated =>
               (Get(kept) <=> ~(HasStatus("maybe") \/ HasStatus("rejected")))
        /\ ~remove_maybe_validated => (Get(kept) <=> ~HasStatus("rejected"))
        /\ NoStatus => Get(kept)

C4_Witness ==
    /\ kept # None /\ LongerThanMin /\ ShorterThanMax
    /\ ~remove_maybe_validated /\ HasStatus("maybe") /\ Get(kept)

-----------------------------------------------------------------------------
\* ---- Claims about process_example

\* C6 (as claimed): applying process_example to its own output yields the
\* same text as applying it once.
C6_IdempotentAsClaimed ==
    Len(returned) = 2 => returned[2] = returned[1]

\* The text has key somewhere in it.
Occurs(key, text) ==
    \E i \in 1..(Len(text) - Len(key) + 1) :
        SubSeq(text, i, i + Len(key) - 1) = key

\* The single characters that are patterns of the conversion table.
SinglePatterns ==
    {conversion_dict[i][1][1] :
        i \in {j \in DOMAIN conversion_dict : Len(conversion_dict[j][1]) = 1}}

\* C7: the pairs of the conversion table are applied in declaration order,
\* each to every occurrence in the text left by the pairs before it: "aae"
\* becomes "a_ring e", "mu g" becomes "mikrogram" (not "mikro g"), and no
\* single-character pattern of the table is left in the returned text.
C7_TableOrder ==
    Len(returned) >= 1 =>
        /\ (transcript = <<"a", "a", "e">> /\ characters_to_keep = None) =>
               returned[1] = <<"a_ring", "e">>
        /\ (transcript \in {<<"mu", "g">>, <<"micro", "g">>}
                /\ characters_to_keep = None) =>
               returned[1] = <<"m", "i", "k", "r", "o", "g", "r", "a", "m">>
        /\ \A c \in SinglePatterns : c \notin Range(returned[1])

C7_Witness ==
    /\ Len(returned) >= 1
    /\ transcript = <<"mu", "g">>
    /\ characters_to_keep = None
    /\ returned[1] = <<"m", "i", "k", "r", "o", "g", "r", "a", "m">>

\* c is one of the characters to keep, whatever its case.
Allowed(c) ==
    \E i \in DOMAIN Get(characters_to_keep) :
        LowerChar(c) = LowerChar(Get(characters_to_keep)[i])

\* C8: with characters_to_keep given, every character of the returned text
\* is an allowed character, a space or a pipe; the spaces that replace the
\* other characters are collapsed and trimmed, so "ab!c  d" with "abc "
\* gives "ab c".
C8_Allowlist ==
    (Len(returned) >= 1 /\ characters_to_keep # None) =>
        /\ \A i \in DOMAIN returned[1] :
               Allowed(returned[1][i]) \/ returned[1][i] \in {" ", "|"}
        /\ ~Occurs(<<" ", " ">>, returned[1])
        /\ returned[1] # <<>> =>
               returned[1][1] # " " /\ returned[1][Len(returned[1])] # " "
        /\ (transcript = <<"a", "b", "!", "c", " ", " ", "d">>
                /\ characters_to_keep = Some(<<"a", "b", "c", " ">>)) =>
               returned[1] = <<"a", "b", " ", "c">>

C8_Witness ==
    /\ Len(returned) >= 1
    /\ transcript = <<"a", "b", "!", "c", " ", " ", "d">>
    /\ characters_to_keep = Some(<<"a", "b", "c", " ">>)
    /\ returned[1] = <<"a", "b", " ", "c">>

-----------------------------------------------------------------------------
\* ---- Claims about load_data_for_finetuning

\* The records the configuration's sources and validation split hold.
SourceRecords ==
    UNION {Range(config.datasets[k]) : k \in DOMAIN config.datasets}
        \cup Range(config.evaluation_dataset)

\* The validation status the source gives to a record of the corpus (the
\* audio path tells which source record it was).
StatusOf(rec) ==
    LET src == CHOOSE s \in SourceRecords : s.audio.path = rec.audio.path
    IN IF "validated" \in DOMAIN src THEN Some(src.validated) ELSE None

ReturnedCorpus(r) == ftPc[r] = "done"

\* C3: in the corpus load_data_for_finetuning returns with filter_dataset
\* enabled, no record of the train split has source status rejected and no
\* record of the val split has source status rejected or maybe.
C3_StatusInvariantAsClaimed ==
    \A r \in Runs :
        (ReturnedCorpus(r) /\ config.filter_dataset)
        => /\ \A i \in DOMAIN train[r] :
                  StatusOf(train[r][i]) # Some("rejected")
           /\ \A i \in DOMAIN val[r] :
                  StatusOf(val[r][i]) \cap {"rejected", "maybe"} = {}

\* The run interleaved several sources and the interleaving has stopped.
Interleaved(r) == ftPc[r] \in {"val", "done"} /\ Len(all_datasets[r]) > 1

Occurrences(r, rec) ==
    Cardinality({i \in DOMAIN train[r] : train[r][i] = rec})

TotalSize(r) ==
    Sum([k \in DOMAIN all_datasets[r] |-> Len(all_datasets[r][k])])

\* The rows of the train stream of run r that come from source k, in order.
FromSource(r, k) ==
    LET IsFromK(rec) == rec.audio.path[1] = k
    IN SelectSeq(train[r], IsFromK)

\* C9 as stated: once the interleaving has stopped, every record of every
\* source is in the train stream exactly once, so the stream is as long as
\* the sources together.
C9_ExactlyOnceAsClaimed ==
    \A r \in Runs :
        Interleaved(r)
        => /\ \A k \in DOMAIN all_datasets[r] :
                  \A j \in DOMAIN all_datasets[r][k] :
                      Occurrences(r, all_datasets[r][k][j]) = 1
           /\ Len(train[r]) = TotalSize(r)

\* C9 as the code has it: the interleaving stops only when every source has
\* been exhausted, and a source that runs out early starts again from its
\* first record: the rows taken from a source are the source repeated, every
\* record of every source is in the stream at least once, and the stream is
\* at least as long as the sources together.
C9_AllExhaustedRestarts ==
    \A r \in Runs :
        /\ Interleaved(r)
           => /\ \A k \in DOMAIN is_exhausted[r] : is_exhausted[r][k]
              /\ \A k \in DOMAIN all_datasets[r] :
                     \A j \in DOMAIN all_datasets[r][k] :
                         Occurrences(r, all_datasets[r][k][j]) >= 1
              /\ Len(train[r]) >= TotalSize(r)
        /\ (ftPc[r] \in {"interleave", "val", "done"}
                /\ Len(all_datasets[r]) > 1)
           => \A k \in DOMAIN all_datasets[r] :
                  LET ds == all_datasets[r][k]
                      taken == FromSource(r, k)
                  IN \A m \in DOMAIN taken :
                         taken[m] = ds[((m - 1) % Len(ds)) + 1]

\* A run whose interleaving stopped after a source had started again.
C9_Witness ==
    \E r \in Runs :
        /\ Interleaved(r)
        /\ ReturnedCorpus(r)
        /\ Len(train[r]) > TotalSize(r)
        /\ \E k \in DOMAIN all_datasets[r] :
               Len(FromSource(r, k)) > Len(all_datasets[r][k])

\* C10: two runs with the same seed (and the same sources and weights, which
\* the runs share) return the same train stream, built from the same
\* shuffled sources, and the same val split.
C10_Reproducible ==
    ((\A r \in Runs : ReturnedCorpus(r)) /\ seed[1] = seed[2])
    => /\ train[1] = train[2]
       /\ all_datasets[1] = all_datasets[2]
       /\ val[1] = val[2]

\* Two runs with the same seed that interleaved two sources, one of them
\* shuffled, into a stream of at least three records.
C10_Witness ==
    /\ \A r \in Runs : ReturnedCorpus(r)
    /\ seed[1] = seed[2]
    /\ Len(config.datasets) > 1
    /\ \E k \in DOMAIN config.datasets : Len(config.datasets[k]) > 1
    /\ Len(train[1]) >= 3

\* C11 as stated: whenever explicit probabilities do not sum to 1, the run
\* fails and returns no corpus, whatever the number of sources: it never gets
\* past the check to interleave, to load the val split or to return.
C11_WeightsCheckedAsClaimed ==
    \A r \in Runs :
        ProbabilitiesRejected
        => ftPc[r] \notin {"interleave", "val", "done"}

-----------------------------------------------------------------------------
\* ---- Claims about the corpus build

\* The audio files that were enumerated, and their stems.
EnumeratedFiles ==
    UNION {Range(Get(audio_listings[k])) :
              k \in {j \in DOMAIN audio_listings : audio_listings[j] # None}}

EnumeratedStems == {f.stem : f \in EnumeratedFiles}

\* The metadata rows whose recording has an enumerated audio file, in order.
RowsWithFile ==
    LET HasFile(row) == row.id_recording \in EnumeratedStems
    IN SelectSeq(rows, HasFile)

\* build_read_aloud_dataset has returned and main has not yet split.
ReadAloudBuilt == mainPc \in {"build_conversation", "split"}

\* C12: the table build_read_aloud_dataset returns holds exactly the
\* metadata rows whose id_recording is the stem of an enumerated audio file,
\* one record per such row, in row order, each with an enumerated audio file
\* of that stem; the other rows are dropped.
C12_InnerJoin ==
    ReadAloudBuilt
    => LET table == Get(read_aloud_dataset)
       IN /\ Len(table) = Len(RowsWithFile)
          /\ \A i \in DOMAIN table :
                 /\ table[i].id_recording = RowsWithFile[i].id_recording
                 /\ table[i].id_speaker = RowsWithFile[i].id_speaker
                 /\ table[i].audio \in EnumeratedFiles
                 /\ table[i].audio.stem = table[i].id_recording

\* Three metadata rows, two of them with an audio file: two records.
C12_Witness ==
    /\ ReadAloudBuilt
    /\ Len(rows) = 3
    /\ Len(RowsWithFile) = 2
    /\ Len(Get(read_aloud_dataset)) = 2

\* C15 as stated: when no metadata row matches an audio file, main ends in a
\* fatal error: it does not complete normally, and nothing is uploaded.
C15_FatalOnEmptyJoinAsClaimed ==
    (mainPc # "off" /\ RowsWithFile = <<>>)
    => (mainPc # "done" /\ uploaded = <<>>)

-----------------------------------------------------------------------------
\* ---- More claims about split_dataset

\* C13 as stated: split_dataset returns only when the train split has a
\* record; with an empty table, or with every speaker in the validation or
\* test list, it raises instead of returning.
C13_RaisesOnEmptyTrainAsClaimed ==
    splitPc = "done"
    => \E i \in DOMAIN dataset :
           dataset[i].id_speaker \notin
               (VALIDATION_SET_SPEAKER_IDS \cup TEST_SET_SPEAKER_IDS)

\* C14: in the returned mapping, val is a key exactly when some record has a
\* speaker of the validation list, test is a key exactly when some record
\* has a speaker of the test list, and neither is ever an empty split.
C14_EmptySplitsOmitted ==
    SplitReturned
    => /\ ("val" \in DOMAIN Get(splits))
              <=> (\E i \in DOMAIN dataset :
                      dataset[i].id_speaker \in VALIDATION_SET_SPEAKER_IDS)
       /\ ("test" \in DOMAIN Get(splits))
              <=> (\E i \in DOMAIN dataset :
                      dataset[i].id_speaker \in TEST_SET_SPEAKER_IDS)
       /\ \A k \in DOMAIN Get(splits) \ {"train"} : Len(Get(splits)[k]) > 0

\* A returned mapping with a test split and, no record being of a
\* validation speaker although the list is not empty, without val.
C14_Witness ==
    /\ SplitReturned
    /\ VALIDATION_SET_SPEAKER_IDS # {}
    /\ DOMAIN Get(splits) = {"train", "test"}

-----------------------------------------------------------------------------
\* ---- Claims about copy_audio_directory_to_cwd

\* C16 as stated: when copy_audio_directory_to_cwd returns, every source
\* subdirectory has a complete extracted copy, a unit whose archive was
\* corrupted having been compressed, copied and extracted again.
C16_EveryUnitExtractedAsClaimed ==
    copyPc = "returned"
    => \A u \in audio_subdirs : extracted_dir[u] = "complete"

-----------------------------------------------------------------------------
\* ---- Claims about list_audio_files

ListEnded == listPc \in {"returned", "OSError"}

\* What holds at every moment of a call: at most max_attempts attempts, one
\* second slept per failed attempt; a return gives the files, after an
\* attempt that succeeded following failures only; OSError is raised only
\* after max_attempts failed attempts.
ListRetryBounded ==
    /\ attempts <= max_attempts
    /\ listPc = "loop" => (slept = attempts /\ listed = None)
    /\ listPc = "returned"
           => (listed = Some(wav_files) /\ slept = attempts - 1)
    /\ listPc = "OSError"
           => (listed = None /\ attempts = max_attempts
                  /\ slept = max_attempts)

\* C17: list_audio_files ends after at most max_attempts attempts with a
\* one-second wait after every failed one; it returns the listing of the
\* first attempt that succeeds and raises OSError exactly when max_attempts
\* attempts have failed; and it always ends.
C17_BoundedRetry == []ListRetryBounded /\ <>ListEnded

\* A call that returned the files at its last allowed attempt, after waits.
C17_Witness ==
    /\ listPc = "returned"
    /\ attempts = max_attempts
    /\ slept >= 2
    /\ wav_files # <<>>

-----------------------------------------------------------------------------
\* ---- Claims about process_dataset

\* The columns of a record that the text cleaning, when it is on, rewrites.
CleanedColumns == IF proc_clean_text THEN {"text"} ELSE {}

-----------------------------------------------------------------------------
\* ---- Claims about the terminal output

\* C19, as the specification states it: while execution is inside a
\* transformers_output_ignored context, the transformers verbosity is ERROR.
C19_ErrorInsideContextAsClaimed ==
    contexts > 0 => hf_verbosity = "ERROR"

\* C20: after block_terminal_output has been called, and until something
\* else sets them, the datasets verbosity is ERROR and the datasets progress
\* bars are disabled, whatever they were before the call.
C20_BlockedAfterCall ==
    blocked_from # None
    => /\ ds_verbosity = "ERROR"
       /\ ~progress_bar_enabled

\* A call made with the datasets library at another verbosity and its
\* progress bars on.
C20_Witness ==
    /\ blocked_from # None
    /\ Get(blocked_from).ds_verbosity = "INFO"
    /\ Get(blocked_from).progress_bar_enabled
    /\ ds_verbosity = "ERROR"

-----------------------------------------------------------------------------
\* ---- Claims about filter_dataset

\* The statuses a split keeps: the training split keeps maybe, every other
\* split keeps approved only.
StatusesKept(split_name) ==
    IF Some(split_name) = fd_train_name THEN {"approved", "maybe"}
    ELSE {"approved"}

\* C21: filter_dataset on a mapping of splits, of finite tables and of
\* streams alike, keeps in the split named train_name the records that are
\* approved or maybe, and in every other split the approved records only,
\* in their order.
C21_StricterOutsideTraining ==
    (fdPc = "returned" /\ fd_kind \in MappingKinds)
    => /\ DOMAIN Get(fd_filtered) = DOMAIN fd_dataset
       /\ \A s \in DOMAIN fd_dataset :
              Get(fd_filtered)[s]
                  = SelectSeq(fd_dataset[s],
                              LAMBDA r : r.validated \in StatusesKept(s))

\* A mapping of streams whose training split kept a maybe record and whose
\* other split dropped one.
C21_Witness ==
    /\ fdPc = "returned"
    /\ fd_kind = "IterableDatasetDict"
    /\ fd_train_name = Some("train")
    /\ \E r \in Range(Get(fd_filtered)["train"]) : r.validated = "maybe"
    /\ \E r \in Range(fd_dataset["val"]) :
           /\ r.validated = "maybe"
           /\ r \notin Range(Get(fd_filtered)["val"])

\* s is an order-preserving subsequence of t.
RECURSIVE IsSubsequence(_, _)
IsSubsequence(s, t) ==
    IF s = <<>> THEN TRUE
    ELSE IF t = <<>> THEN FALSE
    ELSE IF Head(s) = Head(t) THEN IsSubsequence(Tail(s), Tail(t))
    ELSE IsSubsequence(s, Tail(t))

\* What the call would have returned had the same records been passed in
\* the other class, a stream for a table and a table for a stream.
FilteredAsOtherKind ==
    IF fd_kind = "Dataset"
    THEN IterableDatasetFilter(fd_dataset[Unsplit],
                               Get(fd_remove_maybe_validated),
                               fd_min_seconds, fd_max_seconds)
    ELSE DatasetFilter(fd_dataset[Unsplit], num_proc,
                       Get(fd_remove_maybe_validated),
                       fd_min_seconds, fd_max_seconds)

\* C22: for the same records and the same policy, filter_dataset returns the
\* same records in the same order for a finite table and for a stream, and
\* what it returns is an order-preserving subsequence of the input, its
\* records unmodified.
C22_TableAndStreamAgree ==
    (fdPc = "returned" /\ fd_kind \in SingleKinds)
    => /\ Get(fd_filtered)[Unsplit] = FilteredAsOtherKind
       /\ IsSubsequence(Get(fd_filtered)[Unsplit], fd_dataset[Unsplit])

\* A table filtered by more than one worker, a record dropped and more than
\* one kept.
C22_Witness ==
    /\ fdPc = "returned"
    /\ fd_kind = "Dataset"
    /\ num_proc > 1
    /\ Len(fd_dataset[Unsplit]) = MaxSourceLen
    /\ Len(Get(fd_filtered)[Unsplit]) < Len(fd_dataset[Unsplit])
    /\ Len(Get(fd_filtered)[Unsplit]) >= 1

\* C23, as the specification states it: on a finite table or a mapping of
\* finite tables the count logged (per split) is the number of input records
\* minus the number of records of the filtered output; for a stream nothing
\* is counted.
C23_LoggedCountAsClaimed ==
    fdPc = "returned"
    => IF fd_kind \in {"Dataset", "DatasetDict"}
       THEN fd_logged = {<<s, Len(fd_dataset[s]) - Len(Get(fd_filtered)[s])>> :
                            s \in DOMAIN fd_dataset}
       ELSE fd_logged = {}

\* C28, as the specification states it: filter_dataset raises when
\* remove_maybe_validated is given with a mapping of splits, and rejects,
\* before filtering, a mapping without train_name and a table or stream
\* without remove_maybe_validated.
C28_RejectsAsClaimed ==
    fdPc # "call"
    => ((\/ fd_kind \in MappingKinds /\ fd_remove_maybe_validated # None
         \/ fd_kind \in MappingKinds /\ fd_train_name = None
         \/ fd_kind \in SingleKinds /\ fd_remove_maybe_validated = None)
        => fdPc # "returned" /\ fd_filtered = None)

-----------------------------------------------------------------------------
\* ---- Claims about the record and the layout of the text of process_example

\* C24, as the specification states it: process_example leaves the record
\* passed to it unmodified; after the call that record still holds its
\* original text.
C24_InputUnmodifiedAsClaimed ==
    Len(returned) = 1 => example.text = transcript

\* The lines of a text: the pieces between its line breaks.
RECURSIVE Lines(_, _)
Lines(line, rest) ==
    IF rest = <<>> THEN {line}
    ELSE IF Head(rest) = "\n" THEN {line} \cup Lines(<<>>, Tail(rest))
    ELSE Lines(Append(line, Head(rest)), Tail(rest))

\* C25: the text process_example returns has no two spaces in a row, no
\* line that begins or ends with whitespace, and no line break at its start
\* or at its end, for every input text and every option setting.
C25_LayoutOfReturnedText ==
    \A n \in DOMAIN returned :
        LET doc == returned[n]
        IN /\ \A i \in 1..(Len(doc) - 1) : ~(doc[i] = " " /\ doc[i + 1] = " ")
           /\ \A line \in Lines(<<>>, doc) :
                  line # <<>> => /\ line[1] \notin Whitespace
                                 /\ line[Len(line)] \notin Whitespace
           /\ doc # <<>> => doc[1] # "\n" /\ doc[Len(doc)] # "\n"

\* A text of two lines, the first one ending with a space, all characters
\* kept: the line is returned stripped.
C25_Witness ==
    /\ transcript = <<"a", " ", "\n", "a">>
    /\ characters_to_keep = None
    /\ returned # <<>>
    /\ returned[1] = <<"a", "\n", "a">>

\* C27, as the specification states it: leaving a transformers_output_ignored
\* context puts the transformers verbosity back to what it was when that
\* context was entered, and while an enclosing context is still open the
\* output stays suppressed.
C27_VerbosityRestoredAsClaimed ==
    left_context # None
    => /\ hf_verbosity = Get(left_context)
       /\ contexts > 0 => hf_verbosity = "ERROR"

-----------------------------------------------------------------------------
\* ---- Claims about load_dataset_for_evaluation

\* C26, as the specification states it: load_dataset_for_evaluation ends
\* neither in an interactive pause nor in an error, and returns the records
\* of the stream that pass the strict filter, normalised, in stream order.
C26_ReturnsTableAsClaimed ==
    /\ evalPc \notin {"breakpoint", "TypeError"}
    /\ evalPc = "returned"
           => eval_returned
                  = Some(process_dataset(
                        IterableDatasetFilter(eval_stream, TRUE, 0, 3),
                        eval_clean_text, None, TRUE, eval_sampling_rate))

=============================================================================
